---- MODULE Spec2Model ----
(***************************************************************************)
(* Vector memory: the Storage Gateway (vector-api/main.py) in front of a   *)
(* ChromaDB store, and the vmem command-line client (vmem-cli/vmem.py).    *)
(*                                                                         *)
(* The store is a list of collections, each an id, a name and the list of  *)
(* its documents in the store's own order (the order of insertion).  The   *)
(* gateway's endpoints are operators over the store; the client's commands *)
(* are processes that take one step per gateway request.                   *)
(*                                                                         *)
(* Spec        two clients saving compacts (retention cap)                 *)
(* SpecBulk    one client running a delete command over a given store      *)
(* SpecResolve gateway requests inside get_or_create_collection            *)
(* SpecGateway gateway requests served one after another                   *)
(* SpecConfig  the client's auto-save mode over toggles and fresh loads    *)
(* SpecSave    one client toggling the mode and saving                     *)
(* SpecNames   save_compact in working directories of any name            *)
(* SpecFetch   delete_bulk's fetch loop alone, fairly scheduled             *)
(* SpecRace    delete_bulk's fetch loop of one client, save_compact of     *)
(*             another                                                     *)
(***************************************************************************)
EXTENDS Integers, Sequences, FiniteSets, TLC

VARIABLES
    chroma,       \* the store: [collections: Seq([id, name, docs]), next: fresh collection id]
    clock,        \* UTC time in ticks, read by datetime.utcnow()
    uid,          \* the next fresh document id (doc_id of write_global / write_project)
    dirname,      \* basename of the client's working directory
    initialized,  \* .vmem/config.yml or .vmem/vmem.md exists in the working directory
    pc,           \* per client: the position inside the running command
    cmd,          \* per client: the running (or last) command and its arguments
    loc,          \* per client: the local variables of the running command
    sent,         \* per client: the gateway requests the running (or last) command issued
    exit,         \* per client: exit code of the last command
    pre,          \* per client: the compacts in the store when the command started
    alone,        \* per client: no other client ran a command while this one was running
    ops,          \* commands started (requests served, for the gateway alone) so far
    hist,         \* [raced: two commands overlapped, failed: gateway requests that failed]
    rq,           \* per gateway request in flight: position inside get_or_create_collection
    gw,           \* the gateway: [secret: AUTH_TOKEN, last: the last request served and its response]
    fs,           \* the client's files: [yaml: PyYAML is importable, global, project: the config.yml files]
    config        \* per client: self.config as _load_config left it

vars == <<chroma, clock, uid, dirname, initialized, pc, cmd, loc, sent, exit, pre,
          alone, ops, hist, rq, gw, fs, config>>

-----------------------------------------------------------------------------
(* Program constants *)

COMPACT_LIMIT == 10

\* "limit": 100 of _get_compacts
CompactFetchLimit == 100

\* "limit": 1000 of delete_bulk's fetch loop, and the 1000 of its last-page test
PageSize == 1000

batch_size == 100

(* Bounds of the model *)

\* commands started in one behaviour
MaxOps == 3

\* gateway requests that fail in one behaviour
MaxFailures == 1

\* documents in a small store of the delete commands
MaxDocs == 2

\* requests the gateway serves in one behaviour
MaxRequests == 2

\* characters in the name of a working directory
MaxName == 3

\* ticks in one day (timedelta(days = 1))
DayTicks == 2

-----------------------------------------------------------------------------
(* Values *)

Clients == {"c1", "c2"}
Scopes == {"project", "global"}
Texts == {"", "t1", "t2"}

\* the text of a compact (save_compact does not read it)
CompactTexts == {"t1"}

\* Python's None, where a string is looked up and missing
None == "None"

\* metadata.created_at values that are no timestamp of the gateway: the empty
\* string and a string datetime.fromisoformat rejects.  A timestamp written by
\* the gateway, datetime.utcnow().isoformat() + "Z", is its tick, >= 1.
EmptyString == 0
Unparseable == -1

Range(f) == {f[i] : i \in DOMAIN f}

Min(a, b) == IF a < b THEN a ELSE b
Max(a, b) == IF a < b THEN b ELSE a

-----------------------------------------------------------------------------
(* Names *)

\* str.lower() on the alphabet of the model
LowerChar(ch) ==
    IF ch = "A" THEN "a" ELSE IF ch = "B" THEN "b" ELSE IF ch = "Y" THEN "y" ELSE ch
Lower(s) == [i \in DOMAIN s |-> LowerChar(s[i])]

\* str.replace(from, to) for one-character strings
Replace(s, from, to) == [i \in DOMAIN s |-> IF s[i] = from THEN to ELSE s[i]]

\* get_project_id: the slug of the directory name
ClientSlug(name) == Replace(Replace(Lower(name), " ", "-"), "_", "-")

\* A collection name is "global" or "project_" followed by a string; the
\* record keeps the two apart as the prefix does.
GlobalName == [scope |-> "global", slug |-> <<>>]
ProjectName(s) == [scope |-> "project", slug |-> s]

\* f"project_{request.project_id}": the project_id as the caller wrote it
GatewayProjectNameAsGiven(project_id) == ProjectName(project_id)

\* f"project_{request.project_id.lower().replace(' ', '-')}" of the gateway
GatewayProjectName(project_id) == ProjectName(Replace(Lower(project_id), " ", "-"))

\* the directory name itself after "project_"
ClientCollectionOfDirectory(scope, dir) ==
    IF scope = "project" THEN ProjectName(dir) ELSE GlobalName

\* collection = f"project_{project_id}" / "global" of the client's delete requests
ClientCollection(scope, dir) ==
    IF scope = "project" THEN ProjectName(ClientSlug(dir)) ELSE GlobalName

\* the collection the gateway's list and write endpoints use for a client request
EndpointCollection(scope, dir) ==
    IF scope = "project" THEN GatewayProjectName(ClientSlug(dir)) ELSE GlobalName

-----------------------------------------------------------------------------
(* The store (ChromaDB), as the gateway's calls see it *)

CollectionIndex(ch, name) ==
    {i \in 1..Len(ch.collections) : ch.collections[i].name = name}

HasCollection(ch, name) == CollectionIndex(ch, name) # {}

\* a create that does not look for the name
ChromaCreateAgain(ch, name) ==
    [status |-> 200,
     ch |-> [collections |-> Append(ch.collections,
                                    [id |-> ch.next, name |-> name, docs |-> <<>>]),
             next |-> ch.next + 1]]

\* POST /collections: atomic; 409 for an existing name
ChromaCreate(ch, name) ==
    IF HasCollection(ch, name)
    THEN [status |-> 409, ch |-> ch]
    ELSE [status |-> 200,
          ch |-> [collections |-> Append(ch.collections,
                                         [id |-> ch.next, name |-> name, docs |-> <<>>]),
                  next |-> ch.next + 1]]

\* a scan that takes the first collection of the listing, whatever its name
FindFirst(listing, name) ==
    IF listing = <<>> THEN [found |-> FALSE, id |-> 0]
    ELSE [found |-> TRUE, id |-> listing[1].id]

\* the scan of get_or_create_collection over the listing: the first collection
\* with the name; found is FALSE where the code raises "not found after creation"
FindCollection(listing, name) ==
    LET hits == {i \in 1..Len(listing) : listing[i].name = name}
    IN IF hits = {} THEN [found |-> FALSE, id |-> 0]
       ELSE [found |-> TRUE,
             id |-> listing[CHOOSE i \in hits : \A j \in hits : i <= j].id]

IndexOfId(ch, id) == CHOOSE i \in 1..Len(ch.collections) : ch.collections[i].id = id

DocsOfId(ch, id) == ch.collections[IndexOfId(ch, id)].docs

\* the documents of the collection with a name; none when there is no such collection
DocsOf(ch, name) ==
    IF HasCollection(ch, name)
    THEN ch.collections[CHOOSE i \in CollectionIndex(ch, name) : TRUE].docs
    ELSE <<>>

\* a window that starts one document after the offset
ChromaGetOffByOne(ch, id, limit, offset) ==
    LET docs == DocsOfId(ch, id)
    IN SubSeq(docs, offset + 2, Min(Len(docs), offset + 1 + limit))

\* POST /collections/{id}/get with limit and offset: a window of the
\* collection in the store's order
ChromaGet(ch, id, limit, offset) ==
    LET docs == DocsOfId(ch, id)
    IN SubSeq(docs, offset + 1, Min(Len(docs), offset + limit))

\* an add that puts the document in the place of the collection's documents
ChromaAddInPlace(ch, id, doc) ==
    [ch EXCEPT !.collections[IndexOfId(ch, id)].docs = <<doc>>]

\* POST /collections/{id}/add
ChromaAdd(ch, id, doc) ==
    [ch EXCEPT !.collections[IndexOfId(ch, id)].docs = Append(@, doc)]

\* POST /collections/{id}/delete: ids that are not there are ignored
ChromaDelete(ch, id, ids) ==
    [ch EXCEPT !.collections[IndexOfId(ch, id)].docs =
                   SelectSeq(@, LAMBDA d : d.id \notin ids)]

-----------------------------------------------------------------------------
(* The gateway's endpoints, each served without another request in between *)

\* get_or_create_collection: create, tolerate the conflict, list and match
GetOrCreateCollection(ch, name) ==
    LET created == ChromaCreate(ch, name).ch
    IN [ch |-> created, id |-> FindCollection(created.collections, name).id]

\* the key of documents.sort: metadata.created_at, "" when missing.  Strings
\* compare as Python compares them: "" first, the gateway's timestamps in the
\* order of their ticks, a string of letters after every timestamp.
Get(m, k, default) == IF k \in DOMAIN m THEN m[k] ELSE default

SortKey(d) == Get(d.metadata, "created_at", EmptyString)

StringLess(x, y) ==
    /\ x # y
    /\ \/ x = EmptyString
       \/ y = Unparseable
       \/ x # Unparseable /\ y # EmptyString /\ x < y

\* documents.sort(key = created_at, reverse = True): stable, newest first.
\* (A list whose keys strictly ascend is sorted by reversing it; the test only
\* spares the evaluation of the sort.)
SortNewestFirst(docs) ==
    LET n == Len(docs)
    IN IF \A i \in 1..(n - 1) : StringLess(SortKey(docs[i]), SortKey(docs[i + 1]))
       THEN [i \in 1..n |-> docs[n + 1 - i]]
       ELSE SortSeq(docs, LAMBDA a, b : StringLess(SortKey(b), SortKey(a)))

\* /list/global and /list/project
ListEndpoint(ch, name, limit, offset) ==
    LET r == GetOrCreateCollection(ch, name)
    IN [ch |-> r.ch,
        documents |-> SortNewestFirst(ChromaGet(r.ch, r.id, limit, offset))]

\* /write/global and /write/project: the stored metadata
WriteMetadata(scope, project_id, metadata) ==
    LET sys == IF scope = "project"
               THEN [project_slug |-> project_id, visibility |-> "project",
                     created_at |-> clock, updated_at |-> clock]
               ELSE [visibility |-> "global", created_at |-> clock, updated_at |-> clock]
    IN [k \in DOMAIN metadata \cup DOMAIN sys |->
            IF k \in DOMAIN sys THEN sys[k] ELSE metadata[k]]

WriteEndpoint(ch, scope, project_id, text, metadata) ==
    LET name == IF scope = "project" THEN GatewayProjectName(project_id) ELSE GlobalName
        r == GetOrCreateCollection(ch, name)
    IN ChromaAdd(r.ch, r.id,
                 [id |-> uid, text |-> text,
                  metadata |-> WriteMetadata(scope, project_id, metadata)])

\* /delete/document
DeleteDocumentEndpoint(ch, collection, ids) ==
    LET r == GetOrCreateCollection(ch, collection)
    IN ChromaDelete(r.ch, r.id, ids)

-----------------------------------------------------------------------------
(* The client: state shared by its commands *)

IsCompact(d) == Get(d.metadata, "type", None) = "compact"

\* the compacts of a scope's collection: how many, and the ids of those with
\* the oldest created_at
CompactsIn(ch, scope) ==
    LET compacts == SelectSeq(DocsOf(ch, EndpointCollection(scope, dirname)), IsCompact)
        n == Len(compacts)
    IN [count |-> n,
        oldest |-> {compacts[i].id : i \in
                      {i \in 1..n : \A j \in 1..n :
                          ~StringLess(SortKey(compacts[j]), SortKey(compacts[i]))}}]

Idle == "idle"

\* a command and its arguments; older_than_days is None unless has_days
NoCmd == [name |-> "none", scope |-> "project", text |-> "t1", index |-> 0,
          dry_run |-> FALSE, has_days |-> FALSE, days |-> 0, dupes |-> FALSE,
          all |-> FALSE, force |-> FALSE]

\* the local variables of the commands; old and dupes are the ids the two
\* loops of delete_bulk append to to_delete, requests counts its list requests
NoLoc == [compacts |-> <<>>, documents |-> <<>>, offset |-> 0, requests |-> 0,
          swept |-> FALSE, old |-> <<>>, dupes |-> <<>>, unique_ids |-> <<>>,
          i |-> 0, answer |-> <<>>, confirm |-> <<>>, now |-> 0]

Request(ep, collection, ids, ok) ==
    [ep |-> ep, collection |-> collection, ids |-> ids, ok |-> ok]

\* a gateway request may fail (a transport error or an error status)
MayBe(ok) == ok \/ hist.failed < MaxFailures

\* the outcome of a gateway request, as the history keeps it
Outcome(ok) == [hist EXCEPT !.failed = IF ok THEN @ ELSE @ + 1]

\* a command starts: the bookkeeping every command shares
Begin(c, command) ==
    /\ pc[c] = Idle
    /\ ops < MaxOps
    /\ ops' = ops + 1
    /\ cmd' = [cmd EXCEPT ![c] = command]
    /\ pre' = [pre EXCEPT ![c] = CompactsIn(chroma, command.scope)]
    /\ alone' = [x \in Clients |->
                    IF x = c THEN \A o \in Clients \ {c} : pc[o] = Idle
                    ELSE IF pc[x] # Idle THEN FALSE ELSE alone[x]]

Overlaps(c) == \E o \in Clients \ {c} : pc[o] # Idle

\* sys.exit(1) before any request: the project is not initialized
NotInitialized(scope) == scope = "project" /\ ~initialized

-----------------------------------------------------------------------------
(* Compacts *)

\* _get_compacts without its final slice compacts[:COMPACT_LIMIT]
CompactsOfUncapped(documents) == SortNewestFirst(SelectSeq(documents, IsCompact))

\* _get_compacts on the documents of a successful list request: filter, sort
\* newest first, keep the first COMPACT_LIMIT
CompactsOf(documents) ==
    LET compacts == SortNewestFirst(SelectSeq(documents, IsCompact))
    IN SubSeq(compacts, 1, Min(Len(compacts), COMPACT_LIMIT))

\* _get_compacts: one list request with limit 100; a failed request yields []
GetCompacts(ch, scope, ok) ==
    IF ok
    THEN LET r == ListEndpoint(ch, EndpointCollection(scope, dirname),
                               CompactFetchLimit, 0)
         IN [ch |-> r.ch, compacts |-> CompactsOf(r.documents)]
    ELSE [ch |-> ch, compacts |-> <<>>]

ListRequest(scope, ok) == Request("list", EndpointCollection(scope, dirname), <<>>, ok)

\* save_compact deletes before it writes: len(compacts) >= COMPACT_LIMIT
MustDeleteOldest(compacts) == Len(compacts) >= COMPACT_LIMIT

\* save_compact, up to and including the list request of _get_compacts
SaveCompactFetch(c) ==
    \E scope \in Scopes, text \in CompactTexts, ok \in BOOLEAN :
        /\ MayBe(ok)
        /\ Begin(c, [NoCmd EXCEPT !.name = "save_compact", !.scope = scope,
                                  !.text = text])
        /\ IF NotInitialized(scope)
           THEN /\ pc' = pc
                /\ exit' = [exit EXCEPT ![c] = 1]
                /\ sent' = [sent EXCEPT ![c] = <<>>]
                /\ loc' = [loc EXCEPT ![c] = NoLoc]
                /\ chroma' = chroma
                /\ hist' = hist
           ELSE LET r == GetCompacts(chroma, scope, ok)
                IN /\ chroma' = r.ch
                   /\ hist' = [raced |-> hist.raced \/ Overlaps(c),
                               failed |-> Outcome(ok).failed]
                   /\ loc' = [loc EXCEPT ![c] = [NoLoc EXCEPT !.compacts = r.compacts]]
                   /\ sent' = [sent EXCEPT ![c] = <<ListRequest(scope, ok)>>]
                   /\ pc' = [pc EXCEPT ![c] = IF MustDeleteOldest(r.compacts)
                                              THEN "sc_delete" ELSE "sc_write"]
                   /\ exit' = [exit EXCEPT ![c] = 0]
        /\ UNCHANGED <<clock, uid, dirname, initialized, gw, fs, config, rq>>

\* oldest = compacts[-1]; _delete_compact(oldest_id, scope): a failed request
\* is printed and the command goes on
SaveCompactDelete(c) ==
    \E ok \in BOOLEAN :
        /\ pc[c] = "sc_delete"
        /\ MayBe(ok)
        /\ LET oldest == loc[c].compacts[Len(loc[c].compacts)]
               collection == ClientCollection(cmd[c].scope, dirname)
           IN /\ chroma' = IF ok
                           THEN DeleteDocumentEndpoint(chroma, collection, {oldest.id})
                           ELSE chroma
              /\ sent' = [sent EXCEPT ![c] =
                             Append(@, Request("delete", collection, <<oldest.id>>, ok))]
        /\ pc' = [pc EXCEPT ![c] = "sc_write"]
        /\ hist' = Outcome(ok)
        /\ UNCHANGED <<clock, uid, dirname, initialized, gw, fs, config, cmd, loc, exit, pre, alone,
                       ops, rq>>

CompactMetadata == [type |-> "compact", agent |-> "cli", source |-> "manual"]

\* the write request of save_compact; a failed request ends the command with exit code 1
SaveCompactWrite(c) ==
    \E ok \in BOOLEAN :
        /\ pc[c] = "sc_write"
        /\ MayBe(ok)
        /\ IF ok
           THEN /\ chroma' = WriteEndpoint(chroma, cmd[c].scope, ClientSlug(dirname),
                                           cmd[c].text, CompactMetadata)
                /\ uid' = uid + 1
                /\ clock' = clock + 1
                /\ exit' = exit
           ELSE /\ UNCHANGED <<chroma, uid, clock>>
                /\ exit' = [exit EXCEPT ![c] = 1]
        /\ sent' = [sent EXCEPT ![c] =
                       Append(@, Request("write",
                                         EndpointCollection(cmd[c].scope, dirname), <<>>, ok))]
        /\ pc' = [pc EXCEPT ![c] = Idle]
        /\ hist' = Outcome(ok)
        /\ UNCHANGED <<dirname, initialized, gw, fs, config, cmd, loc, pre, alone, ops, rq>>

-----------------------------------------------------------------------------
(* delete_bulk *)

\* the values of --older-than: None, or a number of days
DaysArgs == {[has_days |-> FALSE, days |-> 0], [has_days |-> TRUE, days |-> 0],
             [has_days |-> TRUE, days |-> 1]}

\* what the user types at "Delete these items? [y/N]: "
Answers == {<<"y">>, <<"Y">>, <<" ", "y">>, <<"n">>, <<>>}

\* str.strip() for blanks
Strip(s) ==
    LET keep == {i \in DOMAIN s : s[i] # " "}
    IN IF keep = {} THEN <<>>
       ELSE SubSeq(s, CHOOSE i \in keep : \A j \in keep : i <= j,
                      CHOOSE i \in keep : \A j \in keep : j <= i)

\* any answer taken for consent
ConsentsAnyway(confirm) == TRUE

\* confirm != "y" is false: the deletion goes ahead
Consents(confirm) == confirm = <<"y">>

Indices(documents) == [i \in 1..Len(documents) |-> i]

Ids(documents) == [i \in 1..Len(documents) |-> documents[i].id]

\* the fetch loop stopping after any batch that is not longer than a page
LastPageOrFull(batch) == batch = <<>> \/ Len(batch) <= PageSize

\* the fetch loop stops after this batch: it is empty or shorter than a page
LastPage(batch) == batch = <<>> \/ Len(batch) < PageSize

\* the comparison with the cutoff itself counted as old
OlderOrCutoff(created_at, cutoff) == created_at <= cutoff

\* created_at < cutoff.replace(tzinfo = created_at.tzinfo), both UTC
Older(created_at, cutoff) == created_at < cutoff

\* the age loop's test of one document: a missing or empty created_at is
\* skipped, a string fromisoformat rejects raises ValueError and is skipped
IsOld(doc, cutoff) ==
    IF "created_at" \notin DOMAIN doc.metadata THEN FALSE
    ELSE LET created_str == doc.metadata.created_at
         IN IF created_str = EmptyString THEN FALSE
            ELSE IF created_str = Unparseable THEN FALSE
            ELSE Older(created_str, cutoff)

\* 1. Old entries: the ids the age loop appends to to_delete
OldEntries(documents, older_than_days, now) ==
    LET cutoff == now - older_than_days * DayTicks
    IN Ids(SelectSeq(documents, LAMBDA doc : IsOld(doc, cutoff)))

\* if text: the empty text is skipped
Truthy(text) == text # ""

\* seen_texts[text]: the documents with a text, in the fetched order
SeenTexts(documents, text) == SelectSeq(documents, LAMBDA doc : doc.text = text)

\* the keys of seen_texts in the order of their insertion: no empty text
SeenKeys(documents) ==
    LET present == {t \in Texts : Truthy(t) /\ SeenTexts(documents, t) # <<>>}
        first(t) == SelectSeq(Indices(documents), LAMBDA i : documents[i].text = t)[1]
        firsts == {first(t) : t \in present}
    IN [k \in 1..Cardinality(firsts) |->
            documents[CHOOSE i \in firsts : Cardinality({j \in firsts : j < i}) = k - 1].text]

\* a group of more than one document, its first included
DuplicatesAndFirst(docs) == IF Len(docs) > 1 THEN docs ELSE <<>>

\* docs[1:] of a group of more than one document
Duplicates(docs) == IF Len(docs) > 1 THEN SubSeq(docs, 2, Len(docs)) ELSE <<>>

RECURSIVE DuplicatesOfKeys(_, _, _)
DuplicatesOfKeys(documents, keys, k) ==
    IF k > Len(keys) THEN <<>>
    ELSE Ids(Duplicates(SeenTexts(documents, keys[k])))
            \o DuplicatesOfKeys(documents, keys, k + 1)

\* 2. Duplicates: the ids the duplicate loop appends to to_delete
DuplicateEntries(documents) == DuplicatesOfKeys(documents, SeenKeys(documents), 1)

Reverse(s) == [i \in 1..Len(s) |-> s[Len(s) + 1 - i]]

\* to_delete as it is, an id once for every predicate that matched it
ListOfRaw(to_delete, documents) == {to_delete}

\* list(set(to_delete)): every id once, in an order that is the hash table's;
\* the model takes the fetched order of the documents and its reverse
ListOfSet(to_delete, documents) ==
    LET ids == Range(to_delete)
        fetched == SelectSeq(Ids(documents), LAMBDA id : id \in ids)
    IN {fetched, Reverse(fetched)}

\* the offset left where it was
SameOffset(offset, batch) == offset

\* offset += len(batch)
NextOffset(offset, batch) == offset + Len(batch)

\* one list request of the fetch loop, from the locals l
BulkPage(c, scope, l, ok) ==
    IF ok
    THEN LET r == ListEndpoint(chroma, EndpointCollection(scope, dirname),
                               PageSize, l.offset)
             batch == r.documents
         IN /\ chroma' = r.ch
            /\ loc' = [loc EXCEPT ![c] =
                          [l EXCEPT !.documents = @ \o batch,
                                    !.offset = NextOffset(@, batch),
                                    !.requests = @ + 1]]
            /\ pc' = [pc EXCEPT ![c] = IF LastPage(batch) THEN "db_sweep" ELSE "db_fetch"]
            /\ exit' = [exit EXCEPT ![c] = 0]
    ELSE /\ chroma' = chroma
         /\ loc' = [loc EXCEPT ![c] = [l EXCEPT !.requests = @ + 1]]
         /\ pc' = [pc EXCEPT ![c] = Idle]
         /\ exit' = [exit EXCEPT ![c] = 1]

\* delete_bulk, up to and including the first list request
BulkFetch(c) ==
    \E scope \in Scopes, d \in DaysArgs, duplicates \in BOOLEAN, dry_run \in BOOLEAN,
       ok \in BOOLEAN :
        /\ MayBe(ok)
        /\ Begin(c, [NoCmd EXCEPT !.name = "delete_bulk", !.scope = scope,
                                  !.has_days = d.has_days, !.days = d.days,
                                  !.dupes = duplicates, !.dry_run = dry_run])
        /\ IF NotInitialized(scope)
           THEN /\ pc' = pc
                /\ exit' = [exit EXCEPT ![c] = 1]
                /\ sent' = [sent EXCEPT ![c] = <<>>]
                /\ loc' = [loc EXCEPT ![c] = NoLoc]
                /\ chroma' = chroma
                /\ hist' = hist
           ELSE /\ BulkPage(c, scope, NoLoc, ok)
                /\ sent' = [sent EXCEPT ![c] = <<ListRequest(scope, ok)>>]
                /\ hist' = [raced |-> hist.raced \/ Overlaps(c),
                            failed |-> Outcome(ok).failed]
        /\ UNCHANGED <<clock, uid, dirname, initialized, gw, fs, config, rq>>

\* the next list request of the fetch loop
BulkFetchNext(c) ==
    \E ok \in BOOLEAN :
        /\ pc[c] = "db_fetch"
        /\ MayBe(ok)
        /\ BulkPage(c, cmd[c].scope, loc[c], ok)
        /\ sent' = [sent EXCEPT ![c] = Append(@, ListRequest(cmd[c].scope, ok))]
        /\ hist' = Outcome(ok)
        /\ UNCHANGED <<clock, uid, dirname, initialized, gw, fs, config, cmd, pre, alone, ops, rq>>

\* from the end of the fetch loop to the prompt: the two predicates, the
\* deduplication and the dry run
BulkSweep(c) ==
    /\ pc[c] = "db_sweep"
    /\ LET documents == loc[c].documents
           old == IF cmd[c].has_days
                  THEN OldEntries(documents, cmd[c].days, clock) ELSE <<>>
           dupes == IF cmd[c].dupes THEN DuplicateEntries(documents) ELSE <<>>
           to_delete == old \o dupes
       IN \E unique_ids \in ListOfSet(to_delete, documents) :
             /\ loc' = [loc EXCEPT ![c] =
                           IF documents = <<>> THEN @
                           ELSE [@ EXCEPT !.swept = TRUE, !.now = clock, !.old = old,
                                          !.dupes = dupes,
                                          !.unique_ids = IF to_delete = <<>> THEN <<>>
                                                         ELSE unique_ids]]
             /\ pc' = [pc EXCEPT ![c] =
                          IF documents = <<>> \/ to_delete = <<>> \/ cmd[c].dry_run
                          THEN Idle ELSE "db_confirm"]
    /\ UNCHANGED <<chroma, clock, uid, dirname, initialized, gw, fs, config, cmd, sent, exit, pre,
                   alone, ops, hist, rq>>

\* confirm = input(...).strip().lower()
BulkConfirm(c) ==
    \E answer \in Answers :
        /\ pc[c] = "db_confirm"
        /\ loc' = [loc EXCEPT ![c] = [@ EXCEPT !.answer = answer,
                                               !.confirm = Lower(Strip(answer))]]
        /\ pc' = [pc EXCEPT ![c] = IF Consents(Lower(Strip(answer)))
                                   THEN "db_delete" ELSE Idle]
        /\ UNCHANGED <<chroma, clock, uid, dirname, initialized, gw, fs, config, cmd, sent, exit, pre,
                       alone, ops, hist, rq>>

\* one batch of the delete loop: a failed request is printed and the loop goes on
BulkDelete(c) ==
    \E ok \in BOOLEAN :
        /\ pc[c] = "db_delete"
        /\ MayBe(ok)
        /\ LET unique_ids == loc[c].unique_ids
               i == loc[c].i
               batch == SubSeq(unique_ids, i + 1, Min(Len(unique_ids), i + batch_size))
               collection == ClientCollection(cmd[c].scope, dirname)
           IN /\ chroma' = IF ok
                           THEN DeleteDocumentEndpoint(chroma, collection, Range(batch))
                           ELSE chroma
              /\ sent' = [sent EXCEPT ![c] =
                             Append(@, Request("delete", collection, batch, ok))]
              /\ loc' = [loc EXCEPT ![c] = [@ EXCEPT !.i = i + batch_size]]
              /\ pc' = [pc EXCEPT ![c] = IF i + batch_size < Len(unique_ids)
                                         THEN "db_delete" ELSE Idle]
        /\ hist' = Outcome(ok)
        /\ UNCHANGED <<clock, uid, dirname, initialized, gw, fs, config, cmd, exit, pre, alone, ops, rq>>

-----------------------------------------------------------------------------
(* delete_compact_bulk, delete_compact_by_index, delete_history_by_index *)

\* the index argument of the two commands that delete by index
IndexArgs == {0, 1, 2}

\* created.replace(tzinfo = None) < cutoff
CompactOlder(created, cutoff) == created < cutoff

\* the test of delete_compact_bulk's age loop on one compact
IsOldCompact(compact, cutoff) ==
    LET created_str == Get(compact.metadata, "created_at", EmptyString)
    IN IF created_str = EmptyString THEN FALSE
       ELSE IF created_str = Unparseable THEN FALSE
       ELSE CompactOlder(created_str, cutoff)

\* to_delete of delete_compact_bulk; chosen is FALSE where the command prints
\* "Specify --all or --older-than" and returns
CompactsToDelete(compacts, delete_all, has_days, older_than_days, now) ==
    IF delete_all
    THEN [chosen |-> TRUE, to_delete |-> compacts]
    ELSE IF has_days /\ older_than_days # 0
    THEN [chosen |-> TRUE,
          to_delete |-> SelectSeq(compacts, LAMBDA compact :
                            IsOldCompact(compact, now - older_than_days * DayTicks))]
    ELSE [chosen |-> FALSE, to_delete |-> <<>>]

\* delete_compact_bulk, up to its delete request
DeleteCompactBulkFetch(c) ==
    \E scope \in Scopes, d \in DaysArgs, delete_all \in BOOLEAN, dry_run \in BOOLEAN,
       ok \in BOOLEAN :
        /\ MayBe(ok)
        /\ Begin(c, [NoCmd EXCEPT !.name = "delete_compact_bulk", !.scope = scope,
                                  !.has_days = d.has_days, !.days = d.days,
                                  !.all = delete_all, !.dry_run = dry_run])
        /\ LET r == GetCompacts(chroma, scope, ok)
               t == CompactsToDelete(r.compacts, delete_all, d.has_days, d.days, clock)
           IN /\ chroma' = r.ch
              /\ loc' = [loc EXCEPT ![c] =
                            [NoLoc EXCEPT !.compacts = r.compacts, !.now = clock,
                                          !.unique_ids = Ids(t.to_delete)]]
              /\ pc' = [pc EXCEPT ![c] =
                           IF r.compacts = <<>> \/ t.to_delete = <<>> \/ dry_run
                           THEN Idle ELSE "dcb_delete"]
        /\ sent' = [sent EXCEPT ![c] = <<ListRequest(scope, ok)>>]
        /\ exit' = [exit EXCEPT ![c] = 0]
        /\ hist' = [raced |-> hist.raced \/ Overlaps(c), failed |-> Outcome(ok).failed]
        /\ UNCHANGED <<clock, uid, dirname, initialized, gw, fs, config, rq>>

\* the one delete request of a command, for all of unique_ids; on_error is the
\* exit code after a failed request
DeleteRequest(c, ok, on_error) ==
    LET collection == ClientCollection(cmd[c].scope, dirname)
    IN /\ chroma' = IF ok
                    THEN DeleteDocumentEndpoint(chroma, collection,
                                                Range(loc[c].unique_ids))
                    ELSE chroma
       /\ sent' = [sent EXCEPT ![c] =
                      Append(@, Request("delete", collection, loc[c].unique_ids, ok))]
       /\ exit' = [exit EXCEPT ![c] = IF ok THEN @ ELSE on_error]
       /\ pc' = [pc EXCEPT ![c] = Idle]
       /\ hist' = Outcome(ok)
       /\ UNCHANGED <<clock, uid, dirname, initialized, gw, fs, config, cmd, loc, pre, alone, ops, rq>>

\* the delete request of delete_compact_bulk: a failure is exit code 1
DeleteCompactBulkDelete(c) ==
    \E ok \in BOOLEAN : pc[c] = "dcb_delete" /\ MayBe(ok) /\ DeleteRequest(c, ok, 1)

\* 1 <= index <= len(documents)
ValidIndex(index, documents) == ~(index < 1 \/ index > Len(documents))

\* delete_compact_by_index, up to its delete request
DeleteCompactByIndexFetch(c) ==
    \E scope \in Scopes, index \in IndexArgs, dry_run \in BOOLEAN, ok \in BOOLEAN :
        /\ MayBe(ok)
        /\ Begin(c, [NoCmd EXCEPT !.name = "delete_compact_by_index", !.scope = scope,
                                  !.index = index, !.dry_run = dry_run])
        /\ IF NotInitialized(scope)
           THEN /\ pc' = pc
                /\ exit' = [exit EXCEPT ![c] = 1]
                /\ sent' = [sent EXCEPT ![c] = <<>>]
                /\ loc' = [loc EXCEPT ![c] = NoLoc]
                /\ chroma' = chroma
                /\ hist' = hist
           ELSE LET r == GetCompacts(chroma, scope, ok)
                    valid == ValidIndex(index, r.compacts)
                IN /\ chroma' = r.ch
                   /\ loc' = [loc EXCEPT ![c] =
                                 [NoLoc EXCEPT !.compacts = r.compacts,
                                               !.unique_ids =
                                                   IF valid THEN <<r.compacts[index].id>>
                                                   ELSE <<>>]]
                   /\ pc' = [pc EXCEPT ![c] = IF ~valid \/ dry_run
                                              THEN Idle ELSE "dci_delete"]
                   /\ sent' = [sent EXCEPT ![c] = <<ListRequest(scope, ok)>>]
                   /\ exit' = [exit EXCEPT ![c] = 0]
                   /\ hist' = [raced |-> hist.raced \/ Overlaps(c),
                               failed |-> Outcome(ok).failed]
        /\ UNCHANGED <<clock, uid, dirname, initialized, gw, fs, config, rq>>

\* the delete request of delete_compact_by_index: a failure is exit code 1
DeleteCompactByIndexDelete(c) ==
    \E ok \in BOOLEAN : pc[c] = "dci_delete" /\ MayBe(ok) /\ DeleteRequest(c, ok, 1)

\* retrieve_compact: the compact at an index, or all of them; an invalid index
\* is printed and None returned
RetrieveCompact(c) ==
    \E scope \in Scopes, index \in IndexArgs, show_all \in BOOLEAN, ok \in BOOLEAN :
        /\ MayBe(ok)
        /\ Begin(c, [NoCmd EXCEPT !.name = "retrieve_compact", !.scope = scope,
                                  !.index = index, !.all = show_all])
        /\ pc' = pc
        /\ IF NotInitialized(scope)
           THEN /\ exit' = [exit EXCEPT ![c] = 1]
                /\ sent' = [sent EXCEPT ![c] = <<>>]
                /\ loc' = [loc EXCEPT ![c] = NoLoc]
                /\ chroma' = chroma
                /\ hist' = hist
           ELSE LET r == GetCompacts(chroma, scope, ok)
                    valid == ValidIndex(index, r.compacts)
                IN /\ chroma' = r.ch
                   /\ loc' = [loc EXCEPT ![c] =
                                 [NoLoc EXCEPT !.compacts = r.compacts,
                                               !.unique_ids =
                                                   IF show_all THEN Ids(r.compacts)
                                                   ELSE IF valid
                                                   THEN <<r.compacts[index].id>>
                                                   ELSE <<>>]]
                   /\ sent' = [sent EXCEPT ![c] = <<ListRequest(scope, ok)>>]
                   /\ exit' = [exit EXCEPT ![c] = 0]
                   /\ hist' = [raced |-> hist.raced \/ Overlaps(c),
                               failed |-> Outcome(ok).failed]
        /\ UNCHANGED <<clock, uid, dirname, initialized, gw, fs, config, rq>>

\* limit: int = 10 of history
HistoryDefaultLimit == 10

\* what vmem history displays: the list request with the default limit
HistoryDisplay(ch, scope) ==
    ListEndpoint(ch, EndpointCollection(scope, dirname), HistoryDefaultLimit, 0).documents

\* limit = index + 5 of delete_history_by_index
HistoryLimit(index) == index + 5

\* delete_history_by_index, up to its delete request: history(scope, limit)
\* exits with code 1 without the project marker or on a failed request
DeleteHistoryByIndexFetch(c) ==
    \E scope \in Scopes, index \in IndexArgs, dry_run \in BOOLEAN, ok \in BOOLEAN :
        /\ MayBe(ok)
        /\ Begin(c, [NoCmd EXCEPT !.name = "delete_history_by_index", !.scope = scope,
                                  !.index = index, !.dry_run = dry_run])
        /\ IF NotInitialized(scope)
           THEN /\ pc' = pc
                /\ exit' = [exit EXCEPT ![c] = 1]
                /\ sent' = [sent EXCEPT ![c] = <<>>]
                /\ loc' = [loc EXCEPT ![c] = NoLoc]
                /\ chroma' = chroma
                /\ hist' = hist
           ELSE /\ sent' = [sent EXCEPT ![c] = <<ListRequest(scope, ok)>>]
                /\ hist' = [raced |-> hist.raced \/ Overlaps(c),
                            failed |-> Outcome(ok).failed]
                /\ IF ok
                   THEN LET r == ListEndpoint(chroma, EndpointCollection(scope, dirname),
                                              HistoryLimit(index), 0)
                            valid == ValidIndex(index, r.documents)
                        IN /\ chroma' = r.ch
                           /\ loc' = [loc EXCEPT ![c] =
                                         [NoLoc EXCEPT !.documents = r.documents,
                                                       !.unique_ids =
                                                           IF valid
                                                           THEN <<r.documents[index].id>>
                                                           ELSE <<>>]]
                           /\ pc' = [pc EXCEPT ![c] = IF ~valid \/ dry_run
                                                      THEN Idle ELSE "dh_delete"]
                           /\ exit' = [exit EXCEPT ![c] = 0]
                   ELSE /\ chroma' = chroma
                        /\ loc' = [loc EXCEPT ![c] = NoLoc]
                        /\ pc' = pc
                        /\ exit' = [exit EXCEPT ![c] = 1]
        /\ UNCHANGED <<clock, uid, dirname, initialized, gw, fs, config, rq>>

\* the delete request of delete_history_by_index: a failure is printed only
DeleteHistoryByIndexDelete(c) ==
    \E ok \in BOOLEAN : pc[c] = "dh_delete" /\ MayBe(ok) /\ DeleteRequest(c, ok, 0)

-----------------------------------------------------------------------------
(* The gateway, request by request *)

\* top_k and limit of a request that names none
DefaultTopK == 5
DefaultLimit == 20

\* "Bearer "
Bearer == <<"B", "e", "a", "r", "e", "r", " ">>

\* AUTH_TOKEN of the gateway's environment: "" when no secret is configured
Secrets == {<<>>, <<"s">>}

\* the Authorization header of a request: missing (Header(None)), or a string
NoHeader == [present |-> FALSE, value |-> <<>>]

Headers ==
    {NoHeader} \cup
    {[present |-> TRUE, value |-> v] :
        v \in {<<>>, Bearer \o <<"s">>, Bearer \o <<"x">>, <<"s">>,
               <<"b", "e", "a", "r", "e", "r", " ", "s">>}}

\* a test of the prefix that every string passes
StartsWithAnything(s, prefix) == TRUE

\* str.startswith
StartsWith(s, prefix) == Len(s) >= Len(prefix) /\ SubSeq(s, 1, Len(prefix)) = prefix

\* verify_token: the status of the request before its endpoint runs
verify_token(AUTH_TOKEN, authorization) ==
    IF AUTH_TOKEN = <<>>
    THEN [status |-> 200, detail |-> "none"]
    ELSE IF ~authorization.present \/ authorization.value = <<>>
    THEN [status |-> 401, detail |-> "Missing Authorization header"]
    ELSE IF ~StartsWith(authorization.value, Bearer)
    THEN [status |-> 401, detail |-> "Invalid Authorization format"]
    ELSE IF SubSeq(authorization.value, 7 + 1, Len(authorization.value)) # AUTH_TOKEN
    THEN [status |-> 401, detail |-> "Invalid token"]
    ELSE [status |-> 200, detail |-> "none"]

\* the project ids of the gateway's requests: two that differ in case and in a
\* space for a hyphen
ProjectIds == {<<"A", " ">>, <<"a", "-">>}

\* the metadata of a write request: omitted (the default {}), null, or a mapping
MetadataArgs ==
    {[given |-> "omitted", value |-> <<>>],
     [given |-> "null", value |-> <<>>],
     [given |-> "mapping",
      value |-> [agent |-> "cli", visibility |-> "private", created_at |-> EmptyString,
                 project_slug |-> <<"m">>]]}

\* where a backend call of a request fails: the embedding call, the create or
\* the listing of get_or_create_collection, or the store call of the endpoint
FailPoints == {"none", "embed", "create", "listing", "store"}

\* a resolution that hands out the collection emptied
ResolveEmptied(ch, name, fail) ==
    LET created == ChromaCreate(ch, name).ch
        hit == FindCollection(created.collections, name)
    IN [status |-> 200, detail |-> "none",
        ch |-> [created EXCEPT !.collections[IndexOfId(created, hit.id)].docs = <<>>],
        id |-> hit.id]

\* get_or_create_collection with a create or a listing that may fail
Resolve(ch, name, fail) ==
    LET created == IF fail = "create" THEN ch ELSE ChromaCreate(ch, name).ch
        hit == FindCollection(created.collections, name)
    IN IF fail = "listing"
       THEN [status |-> 500, detail |-> "ChromaDB error", ch |-> created, id |-> 0]
       ELSE IF hit.found
       THEN [status |-> 200, detail |-> "none", ch |-> created, id |-> hit.id]
       ELSE [status |-> 500, detail |-> "not found after creation", ch |-> created,
             id |-> 0]

\* a query answered from the first collection of the store, whatever the id
QueryFirstCollection(ch, id, top_k) ==
    SubSeq(ch.collections[1].docs, 1, Min(Len(ch.collections[1].docs), top_k))

\* query_collection: the store's n_results nearest documents; the model keeps
\* the store's order for the order of similarity
QueryCollection(ch, id, top_k) ==
    SubSeq(DocsOfId(ch, id), 1, Min(Len(DocsOfId(ch, id)), top_k))

\* a request and its response: calls are the backend calls it made, id the
\* document it wrote, documents the documents or matches it returned
NoRequest ==
    [endpoint |-> "none", scope |-> "global", project_id |-> <<>>,
     authorization |-> NoHeader, metadata |-> [given |-> "omitted", value |-> <<>>],
     collection |-> GlobalName, ids |-> {}, fail |-> "none",
     status |-> 0, detail |-> "none", calls |-> <<>>, id |-> 0, documents |-> <<>>]

\* the gateway's secret, the Authorization header its clients were started
\* with (self.headers of the client), the last request served and the one
\* served before it
NoGw == [secret |-> <<>>, authorization |-> NoHeader, last |-> NoRequest,
         prev |-> NoRequest]

\* the collection name the write, query and list endpoints derive
CollectionName(scope, project_id) ==
    IF scope = "project" THEN GatewayProjectName(project_id) ELSE GlobalName

\* what every endpoint shares: the request is counted, the token verified
\* before the endpoint's body, a failing backend call drawn from the budget
Serve(request) ==
    /\ ops < MaxRequests
    /\ ops' = ops + 1
    /\ MayBe(request.fail = "none")
    /\ hist' = Outcome(request.fail = "none")
    /\ request.fail # "none" =>
          verify_token(gw.secret, request.authorization).status = 200
    /\ UNCHANGED <<dirname, initialized, pc, cmd, loc, sent, exit, pre, alone, rq, fs,
                   config>>

\* the response; the store, the document ids and the clock are as given
Respond(request, status, detail, calls, id, documents, ch, written) ==
    /\ gw' = [gw EXCEPT !.last = [request EXCEPT !.status = status, !.detail = detail,
                                                 !.calls = calls, !.id = id,
                                                 !.documents = documents],
                        !.prev = gw.last]
    /\ chroma' = ch
    /\ uid' = IF written THEN uid + 1 ELSE uid
    /\ clock' = IF written THEN clock + 1 ELSE clock

\* HTTP 401 of verify_token: the endpoint's body does not run
Unauthorized(request) ==
    Respond(request, 401, verify_token(gw.secret, request.authorization).detail,
            <<>>, 0, <<>>, chroma, FALSE)

\* the backend calls with the collection resolved before the text is embedded
WriteCallsResolveFirst(ch, name, fail) ==
    LET r == Resolve(ch, name, fail)
    IN IF r.status # 200
       THEN [status |-> 500, detail |-> r.detail, calls |-> <<"create", "list">>,
             ch |-> r.ch]
       ELSE IF fail = "embed"
       THEN [status |-> 500, detail |-> "Ollama error",
             calls |-> <<"create", "list", "embed">>, ch |-> r.ch]
       ELSE IF fail = "store"
       THEN [status |-> 500, detail |-> "ChromaDB add error",
             calls |-> <<"create", "list", "embed", "add">>, ch |-> r.ch]
       ELSE [status |-> 200, detail |-> "success",
             calls |-> <<"create", "list", "embed", "add">>, ch |-> r.ch]

\* the backend calls of a write in their order (get_embeddings,
\* get_or_create_collection, add_document) up to the first that fails, and
\* the store they leave before the document is added
WriteCalls(ch, name, fail) ==
    LET r == Resolve(ch, name, fail)
    IN IF fail = "embed"
       THEN [status |-> 500, detail |-> "Ollama error", calls |-> <<"embed">>,
             ch |-> ch]
       ELSE IF r.status # 200
       THEN [status |-> 500, detail |-> r.detail,
             calls |-> <<"embed", "create", "list">>, ch |-> r.ch]
       ELSE IF fail = "store"
       THEN [status |-> 500, detail |-> "ChromaDB add error",
             calls |-> <<"embed", "create", "list", "add">>, ch |-> r.ch]
       ELSE [status |-> 200, detail |-> "success",
             calls |-> <<"embed", "create", "list", "add">>, ch |-> r.ch]

\* /write/global and /write/project: metadata.copy(), embed, resolve, add
GwWrite ==
    \E scope \in Scopes, project_id \in ProjectIds, metadata \in MetadataArgs,
       fail \in FailPoints :
        LET authorization == gw.authorization
            request == [NoRequest EXCEPT
                            !.endpoint = "write", !.scope = scope,
                            !.project_id = IF scope = "project" THEN project_id ELSE <<>>,
                            !.authorization = authorization, !.metadata = metadata,
                            !.collection = CollectionName(scope, project_id),
                            !.fail = fail]
            w == WriteCalls(chroma, request.collection, fail)
        IN /\ Serve(request)
           /\ fail # "none" => metadata.given # "null"
           /\ IF verify_token(gw.secret, authorization).status # 200
              THEN Unauthorized(request)
              ELSE IF metadata.given = "null"
              THEN Respond(request, 500, "Internal Server Error", <<>>, 0, <<>>,
                           chroma, FALSE)
              ELSE IF w.status # 200
              THEN Respond(request, 500, w.detail, w.calls, 0, <<>>, w.ch, FALSE)
              ELSE Respond(request, 200, w.detail, w.calls, uid, <<>>,
                           WriteEndpoint(chroma, scope, project_id, "t1", metadata.value),
                           TRUE)

\* /query/global and /query/project: embed, resolve, query
GwQuery ==
    \E scope \in Scopes, project_id \in ProjectIds, fail \in FailPoints :
        LET authorization == gw.authorization
            request == [NoRequest EXCEPT
                            !.endpoint = "query", !.scope = scope,
                            !.project_id = IF scope = "project" THEN project_id ELSE <<>>,
                            !.authorization = authorization,
                            !.collection = CollectionName(scope, project_id),
                            !.fail = fail]
            r == Resolve(chroma, request.collection, fail)
        IN /\ Serve(request)
           /\ IF verify_token(gw.secret, authorization).status # 200
              THEN Unauthorized(request)
              ELSE IF fail = "embed"
              THEN Respond(request, 500, "Ollama error", <<"embed">>, 0, <<>>,
                           chroma, FALSE)
              ELSE IF r.status # 200
              THEN Respond(request, 500, r.detail, <<"embed", "create", "list">>, 0,
                           <<>>, r.ch, FALSE)
              ELSE IF fail = "store"
              THEN Respond(request, 500, "ChromaDB query error",
                           <<"embed", "create", "list", "query">>, 0, <<>>, r.ch, FALSE)
              ELSE Respond(request, 200, "none",
                           <<"embed", "create", "list", "query">>, 0,
                           QueryCollection(r.ch, r.id, DefaultTopK), r.ch, FALSE)

\* /list/global and /list/project: resolve, get, sort
GwList ==
    \E scope \in Scopes, project_id \in ProjectIds, fail \in FailPoints \ {"embed"} :
        LET authorization == gw.authorization
            request == [NoRequest EXCEPT
                            !.endpoint = "list", !.scope = scope,
                            !.project_id = IF scope = "project" THEN project_id ELSE <<>>,
                            !.authorization = authorization,
                            !.collection = CollectionName(scope, project_id),
                            !.fail = fail]
            r == Resolve(chroma, request.collection, fail)
        IN /\ Serve(request)
           /\ IF verify_token(gw.secret, authorization).status # 200
              THEN Unauthorized(request)
              ELSE IF r.status # 200
              THEN Respond(request, 500, r.detail, <<"create", "list">>, 0, <<>>,
                           r.ch, FALSE)
              ELSE IF fail = "store"
              THEN Respond(request, 500, "ChromaDB list error",
                           <<"create", "list", "get">>, 0, <<>>, r.ch, FALSE)
              ELSE Respond(request, 200, "none", <<"create", "list", "get">>, 0,
                           ListEndpoint(chroma, request.collection, DefaultLimit,
                                        0).documents,
                           r.ch, FALSE)

\* the collection names of a /delete/document request
DeleteNames == {GlobalName} \cup {GatewayProjectName(p) : p \in ProjectIds}

\* the ids of a /delete/document request
DeleteIds == {{1}, {1, 2}}

\* /delete/document: resolve, delete
GwDeleteDocument ==
    \E collection \in DeleteNames, ids \in DeleteIds, fail \in FailPoints \ {"embed"} :
        LET authorization == gw.authorization
            request == [NoRequest EXCEPT
                            !.endpoint = "delete_document",
                            !.scope = collection.scope,
                            !.authorization = authorization,
                            !.collection = collection, !.ids = ids, !.fail = fail]
            r == Resolve(chroma, collection, fail)
        IN /\ Serve(request)
           /\ IF verify_token(gw.secret, authorization).status # 200
              THEN Unauthorized(request)
              ELSE IF r.status # 200
              THEN Respond(request, 500, r.detail, <<"create", "list">>, 0, <<>>,
                           r.ch, FALSE)
              ELSE IF fail = "store"
              THEN Respond(request, 500, "ChromaDB delete error",
                           <<"create", "list", "delete">>, 0, <<>>, r.ch, FALSE)
              ELSE Respond(request, 200, "success", <<"create", "list", "delete">>, 0,
                           <<>>, DeleteDocumentEndpoint(chroma, collection, ids), FALSE)

\* DELETE /collections/{name}: 404 when there is no collection of the name
ChromaDrop(ch, name) ==
    IF HasCollection(ch, name)
    THEN [status |-> 200,
          ch |-> [ch EXCEPT !.collections = SelectSeq(@, LAMBDA col : col.name # name)]]
    ELSE [status |-> 404, ch |-> ch]

\* the status of /delete/project with a 404 of the store passed on as an error
DeleteProjectStatusStrict(status) ==
    IF status \notin {200, 204} THEN 500 ELSE 200

\* the status of /delete/project for the status of the store's DELETE
DeleteProjectStatus(status) ==
    IF status = 404 THEN 200
    ELSE IF status \notin {200, 204} THEN 500
    ELSE 200

\* collection_name = f"project_{request.project_id}" of /delete/project
DropName(project_id) == ProjectName(project_id)

\* /delete/project: drop the collection; 404 is a success
GwDeleteProject ==
    \E project_id \in ProjectIds, fail \in {"none", "store"} :
        LET authorization == gw.authorization
            request == [NoRequest EXCEPT
                            !.endpoint = "delete_project", !.scope = "project",
                            !.project_id = project_id,
                            !.authorization = authorization,
                            !.collection = DropName(project_id), !.fail = fail]
            dropped == ChromaDrop(chroma, DropName(project_id))
        IN /\ Serve(request)
           /\ IF verify_token(gw.secret, authorization).status # 200
              THEN Unauthorized(request)
              ELSE IF fail = "store"
              THEN Respond(request, 500, "ChromaDB delete error", <<"drop">>, 0, <<>>,
                           chroma, FALSE)
              ELSE Respond(request, DeleteProjectStatus(dropped.status),
                           IF dropped.status = 404 THEN "not found, nothing to delete"
                           ELSE "deleted",
                           <<"drop">>, 0, <<>>, dropped.ch, FALSE)


-----------------------------------------------------------------------------
(* The client's configuration: auto-save mode *)

\* Python values of the configuration: None, a bool, a str, or a dict with
\* the one key "mode" (of: the type of that key's value)
PyNone == [type |-> "none", of |-> "none", b |-> FALSE, s |-> ""]
PyBool(b) == [type |-> "bool", of |-> "none", b |-> b, s |-> ""]
PyStr(s) == [type |-> "str", of |-> "none", b |-> FALSE, s |-> s]
PyDict(v) == [type |-> "dict", of |-> v.type, b |-> v.b, s |-> v.s]

\* d["mode"]
DictMode(d) == [type |-> d.of, of |-> "none", b |-> d.b, s |-> d.s]

\* bool(v)
IsTrue(v) ==
    \/ v.type = "bool" /\ v.b
    \/ v.type = "str" /\ v.s # ""
    \/ v.type = "dict"

\* a config.yml: missing, empty, "auto_save:" with nothing after it,
\* "auto_save: <word>", or "auto_save:" with "mode: <word>" under it
NoFile == [exists |-> FALSE, form |-> "empty", word |-> ""]
File(form, word) == [exists |-> TRUE, form |-> form, word |-> word]

Words == {"on", "off", "prompt"}

\* yaml.safe_load of a plain scalar: on and off are booleans (YAML 1.1)
YamlScalar(word) ==
    IF word = "on" THEN PyBool(TRUE)
    ELSE IF word = "off" THEN PyBool(FALSE)
    ELSE PyStr(word)

\* yaml.safe_load(f): whether the document has the key auto_save, and its value
safe_load(file) ==
    IF file.form = "empty" THEN [has |-> FALSE, auto_save |-> PyNone]
    ELSE IF file.form = "null" THEN [has |-> TRUE, auto_save |-> PyNone]
    ELSE IF file.form = "flat" THEN [has |-> TRUE, auto_save |-> YamlScalar(file.word)]
    ELSE [has |-> TRUE, auto_save |-> PyDict(YamlScalar(file.word))]

\* the files: whether the yaml package could be imported, ~/.vmem/config.yml,
\* .vmem/config.yml of the working directory, and the mode of the last toggle
\* that wrote the latter ("none": no toggle did)
NoFs == [yaml |-> TRUE, global |-> NoFile, project |-> NoFile, toggled |-> "none"]

\* _load_config: an exception while a file is read leaves the default
LoadConfig(f) ==
    LET g == safe_load(f.global)
        p == safe_load(f.project)
    IN [global_mode |->
            IF f.global.exists /\ f.yaml /\ g.has /\ g.auto_save.type = "dict"
            THEN DictMode(g.auto_save)
            ELSE PyStr("off"),
        project_mode |->
            IF f.project.exists /\ f.yaml /\ p.has THEN p.auto_save ELSE PyNone]

\* get_effective_mode
get_effective_mode(cfg) ==
    LET mode == IF cfg.project_mode # PyNone THEN cfg.project_mode ELSE cfg.global_mode
    IN IF mode = PyBool(TRUE) THEN PyStr("on")
       ELSE IF mode = PyBool(FALSE) THEN PyStr("off")
       ELSE IF IsTrue(mode) THEN mode
       ELSE PyStr("off")

\* per client: self.config, and the toggle that had last written the project
\* file when it was loaded
NoConfig ==
    [c \in Clients |-> [global_mode |-> PyStr("off"), project_mode |-> PyNone,
                        after |-> "none"]]

ConfigUnchanged ==
    UNCHANGED <<chroma, clock, uid, dirname, initialized, cmd, loc, sent, pre, alone,
                ops, hist, rq, gw>>

\* a vmem process starts: __init__ loads the configuration
Load(c) ==
    /\ pc[c] = Idle
    /\ pc' = [pc EXCEPT ![c] = "loaded"]
    /\ config' = [config EXCEPT ![c] = LoadConfig(fs) @@ [after |-> fs.toggled]]
    /\ UNCHANGED <<fs, exit>>
    /\ ConfigUnchanged

\* vmem toggle <mode>
Toggle(c, mode) ==
    /\ pc[c] = "loaded"
    /\ pc' = [pc EXCEPT ![c] = Idle]
    /\ IF mode \notin {"off", "on"} \/ ~initialized
       THEN /\ exit' = [exit EXCEPT ![c] = 1]
            /\ UNCHANGED fs
       ELSE /\ exit' = [exit EXCEPT ![c] = 0]
            /\ fs' = [fs EXCEPT !.project = File("flat", mode), !.toggled = mode]
    /\ UNCHANGED config
    /\ ConfigUnchanged

\* a command that only reads the mode (vmem status) ends
Finish(c) ==
    /\ pc[c] = "loaded"
    /\ pc' = [pc EXCEPT ![c] = Idle]
    /\ exit' = [exit EXCEPT ![c] = 0]
    /\ UNCHANGED <<fs, config>>
    /\ ConfigUnchanged

\* what the user types at "Save to vector storage? (y/n): "
SaveAnswers == {<<"y">>, <<"Y", "e", "s">>, <<"n">>}

\* a permission that every mode gives
can_auto_save_anyway(mode, response) == TRUE

\* can_auto_save, for the effective mode and the answer to its prompt
can_auto_save(mode, response) ==
    IF mode = PyStr("off") THEN FALSE
    ELSE IF mode = PyStr("on") THEN TRUE
    ELSE IF mode = PyStr("prompt")
    THEN Lower(Strip(response)) \in {<<"y">>, <<"y", "e", "s">>}
    ELSE FALSE

\* the metadata save sends: type from the command line, agent and source
SaveMetadata(force) ==
    [type |-> "note", agent |-> "cli", source |-> IF force THEN "manual" ELSE "auto"]

\* vmem save: the gate of the project marker, the auto-save permission unless
\* forced (mode.upper() of a mode that is no string raises), the write request
Save(c) ==
    \E scope \in Scopes, force \in BOOLEAN, response \in SaveAnswers, ok \in BOOLEAN :
        LET mode == get_effective_mode(config[c])
            gated == NotInitialized(scope)
            declined == ~force /\ ~can_auto_save(mode, response)
        IN /\ pc[c] = "loaded"
           /\ ops < MaxOps
           /\ ops' = ops + 1
           /\ MayBe(ok)
           /\ (gated \/ declined) => ok
           /\ pc' = [pc EXCEPT ![c] = Idle]
           /\ cmd' = [cmd EXCEPT ![c] = [NoCmd EXCEPT !.name = "save", !.scope = scope,
                                                      !.force = force]]
           /\ IF gated
              THEN /\ exit' = [exit EXCEPT ![c] = 1]
                   /\ sent' = [sent EXCEPT ![c] = <<>>]
                   /\ UNCHANGED <<chroma, uid, clock, hist>>
              ELSE IF declined
              THEN /\ exit' = [exit EXCEPT ![c] = IF mode.type = "str" THEN 0 ELSE 1]
                   /\ sent' = [sent EXCEPT ![c] = <<>>]
                   /\ UNCHANGED <<chroma, uid, clock, hist>>
              ELSE /\ sent' = [sent EXCEPT ![c] =
                                  <<Request("write", EndpointCollection(scope, dirname),
                                            <<>>, ok)>>]
                   /\ hist' = Outcome(ok)
                   /\ IF ok
                      THEN /\ chroma' = WriteEndpoint(chroma, scope, ClientSlug(dirname),
                                                      "t1", SaveMetadata(force))
                           /\ uid' = uid + 1
                           /\ clock' = clock + 1
                           /\ exit' = [exit EXCEPT ![c] = 0]
                      ELSE /\ UNCHANGED <<chroma, uid, clock>>
                           /\ exit' = [exit EXCEPT ![c] = 1]
           /\ UNCHANGED <<dirname, initialized, loc, pre, alone, rq, gw, fs, config>>

-----------------------------------------------------------------------------
(* Initial states *)

DirNames == {<<"A", "_", "b">>}

\* the metadata of a document as a client write through the gateway stores it
StoredMetadata(type, slug, at) ==
    [type |-> type, agent |-> "cli", source |-> "manual", project_slug |-> slug,
     visibility |-> "project", created_at |-> at, updated_at |-> at]

\* a project collection after n saves of notes followed by k saves of compacts
NotesThenCompacts(slug, n, k) ==
    [i \in 1..(n + k) |->
        [id |-> i, text |-> "t1",
         metadata |-> StoredMetadata(IF i <= n THEN "note" ELSE "compact", slug, i)]]

StoreOf(name, docs) ==
    IF docs = <<>>
    THEN [collections |-> <<>>, next |-> 1]
    ELSE [collections |-> <<[id |-> 1, name |-> name, docs |-> docs]>>, next |-> 2]

\* the collections a behaviour starts from: notes, then compacts
InitStores ==
    {<<0, 0>>, <<0, COMPACT_LIMIT - 1>>, <<3, COMPACT_LIMIT>>,
     <<CompactFetchLimit - 5, COMPACT_LIMIT>>, <<CompactFetchLimit, COMPACT_LIMIT>>}

\* the gateway's requests in flight: position in get_or_create_collection, the
\* name asked for, the status of the create response (0: none came), the id
\* returned, and the detail of the HTTP 500 where the call raised
Requests == {"r1", "r2", "r3"}

NoRq == [r \in Requests |->
            [pc |-> "idle", name |-> GlobalName, status |-> 0, id |-> 0, why |-> "none"]]

\* the files of the client before any command wrote one, and a client that
\* loaded no file
InitClients ==
    /\ pc = [c \in Clients |-> Idle]
    /\ cmd = [c \in Clients |-> NoCmd]
    /\ loc = [c \in Clients |-> NoLoc]
    /\ sent = [c \in Clients |-> <<>>]
    /\ exit = [c \in Clients |-> 0]
    /\ pre = [c \in Clients |-> [count |-> 0, oldest |-> {}]]
    /\ alone = [c \in Clients |-> TRUE]
    /\ hist = [raced |-> FALSE, failed |-> 0]

Init ==
    /\ dirname \in DirNames
    /\ initialized \in BOOLEAN
    /\ \E s \in InitStores :
          /\ ~initialized => s = <<0, 0>>
          /\ chroma = StoreOf(EndpointCollection("project", dirname),
                              NotesThenCompacts(ClientSlug(dirname), s[1], s[2]))
          /\ uid = s[1] + s[2] + 1
          /\ clock = s[1] + s[2] + 1
    /\ InitClients
    /\ ops = 0
    /\ rq = NoRq
    /\ gw = NoGw
    /\ fs = NoFs
    /\ config = NoConfig

Next ==
    \E c \in Clients :
        \/ SaveCompactFetch(c)
        \/ SaveCompactDelete(c)
        \/ SaveCompactWrite(c)

Spec == Init /\ [][Next]_vars

-----------------------------------------------------------------------------
(* The delete commands, one client: no concurrent writer *)

\* the time of the sweep in the small stores: two days and a tick
SweepNow == 2 * DayTicks + 1

\* the metadata of a document that was put into the store past the gateway
ForeignMetadata(type) == [type |-> type, agent |-> "cli", source |-> "manual"]

\* documents a small store is made of: text, type, and a created_at that is a
\* gateway timestamp (old, a day before the sweep to the tick, or of the
\* sweep's own tick), missing, empty or unparseable
Shapes ==
    {[text |-> "t1", metadata |-> StoredMetadata("note", <<"a", "-", "b">>, 1)],
     [text |-> "t1", metadata |-> StoredMetadata("compact", <<"a", "-", "b">>,
                                                 SweepNow - DayTicks)],
     [text |-> "t2", metadata |-> StoredMetadata("compact", <<"a", "-", "b">>, SweepNow)],
     [text |-> "", metadata |-> StoredMetadata("note", <<"a", "-", "b">>, 1)],
     [text |-> "", metadata |-> (ForeignMetadata("compact") @@
                                 [created_at |-> Unparseable])],
     [text |-> "t2", metadata |-> ForeignMetadata("note")],
     [text |-> "t1", metadata |-> (ForeignMetadata("note") @@
                                   [created_at |-> EmptyString])]}

\* the gateway's timestamps of a store ascend in the order of insertion
InsertionOrder(docs) ==
    \A i \in 1..Len(docs) : \A j \in (i + 1)..Len(docs) :
        LET a == SortKey(docs[i])
            b == SortKey(docs[j])
        IN (a >= 1 /\ b >= 1) => a <= b

SmallStores ==
    {[i \in 1..Len(s) |-> [id |-> i, text |-> s[i].text, metadata |-> s[i].metadata]] :
        s \in {s \in UNION {[1..n -> Shapes] : n \in 0..MaxDocs} : InsertionOrder(s)}}

\* a collection of k notes, one per tick
Notes(k) == NotesThenCompacts(<<"a", "-", "b">>, k, 0)

\* The store is what earlier saves left: a small collection of any shapes, or
\* a collection of a page of notes, or a page and one.  The behaviour is the
\* last of MaxOps commands, the saves that filled the store being the others.
InitBulk ==
    /\ dirname \in DirNames
    /\ initialized \in BOOLEAN
    /\ \/ \E docs \in SmallStores :
             /\ ~initialized => docs = <<>>
             /\ chroma = StoreOf(EndpointCollection("project", dirname), docs)
             /\ uid = Len(docs) + 1
             /\ clock = SweepNow
       \/ \E k \in {PageSize, PageSize + 1} :
             /\ initialized
             /\ chroma = StoreOf(EndpointCollection("project", dirname), Notes(k))
             /\ uid = k + 1
             /\ clock = k + 1
    /\ InitClients
    /\ ops = MaxOps - 1
    /\ rq = NoRq
    /\ gw = NoGw
    /\ fs = NoFs
    /\ config = NoConfig

Sweeper == "c1"

NextBulk ==
    \/ BulkFetch(Sweeper)
    \/ BulkFetchNext(Sweeper)
    \/ BulkSweep(Sweeper)
    \/ BulkConfirm(Sweeper)
    \/ BulkDelete(Sweeper)
    \/ DeleteCompactBulkFetch(Sweeper)
    \/ DeleteCompactBulkDelete(Sweeper)
    \/ DeleteCompactByIndexFetch(Sweeper)
    \/ DeleteCompactByIndexDelete(Sweeper)
    \/ DeleteHistoryByIndexFetch(Sweeper)
    \/ DeleteHistoryByIndexDelete(Sweeper)
    \/ RetrieveCompact(Sweeper)

SpecBulk == InitBulk /\ [][NextBulk]_vars

-----------------------------------------------------------------------------
(* get_or_create_collection, request by request *)

ResolveNames == {GlobalName, GatewayProjectName(<<"a", "-", "b">>)}

\* a request (write, query, list or delete/document) enters
\* get_or_create_collection(name)
ResolveBegin(r) ==
    \E name \in ResolveNames :
        /\ rq[r].pc = "idle"
        /\ rq' = [rq EXCEPT ![r] = [@ EXCEPT !.pc = "create", !.name = name]]
        /\ UNCHANGED <<chroma, clock, uid, dirname, initialized, gw, fs, config, pc, cmd, loc, sent,
                       exit, pre, alone, ops, hist>>

\* POST /collections: 200 and 409 go on silently; another status or an
\* exception is logged and the call goes on as well
ResolveCreate(r) ==
    \E answered \in BOOLEAN, error \in {0, 500} :
        /\ rq[r].pc = "create"
        /\ answered => error = 0
        /\ LET created == ChromaCreate(chroma, rq[r].name)
           IN /\ chroma' = IF answered THEN created.ch ELSE chroma
              /\ rq' = [rq EXCEPT ![r] =
                           [@ EXCEPT !.pc = "list",
                                     !.status = IF answered THEN created.status ELSE error]]
        /\ UNCHANGED <<clock, uid, dirname, initialized, gw, fs, config, pc, cmd, loc, sent, exit, pre,
                       alone, ops, hist>>

\* GET /collections and the scan for the name: HTTP 500 unless the listing
\* came with status 200 and holds the name
ResolveList(r) ==
    \E ok \in BOOLEAN :
        /\ rq[r].pc = "list"
        /\ LET hit == FindCollection(chroma.collections, rq[r].name)
           IN rq' = [rq EXCEPT ![r] =
                        IF ~ok THEN [@ EXCEPT !.pc = "failed", !.why = "ChromaDB error"]
                        ELSE IF hit.found THEN [@ EXCEPT !.pc = "done", !.id = hit.id]
                        ELSE [@ EXCEPT !.pc = "failed",
                                       !.why = "not found after creation"]]
        /\ UNCHANGED <<chroma, clock, uid, dirname, initialized, gw, fs, config, pc, cmd, loc, sent,
                       exit, pre, alone, ops, hist>>

\* the store before the requests: empty, or with the global collection
InitResolve ==
    /\ dirname \in DirNames
    /\ initialized = TRUE
    /\ chroma \in {StoreOf(GlobalName, <<>>),
                   StoreOf(GlobalName, NotesThenCompacts(<<"a", "-", "b">>, 1, 0))}
    /\ uid = 2
    /\ clock = 2
    /\ InitClients
    /\ ops = 0
    /\ rq = NoRq
    /\ gw = NoGw
    /\ fs = NoFs
    /\ config = NoConfig

NextResolve ==
    \E r \in Requests :
        \/ ResolveBegin(r)
        \/ ResolveCreate(r)
        \/ ResolveList(r)

SpecResolve == InitResolve /\ [][NextResolve]_vars

-----------------------------------------------------------------------------
(* The gateway serving requests one after another *)

\* the project whose collection may hold a note when the gateway starts
StoredProject == <<"a", "-">>

InitGateway ==
    /\ dirname \in DirNames
    /\ initialized = TRUE
    /\ \E n \in {0, 1} :
          /\ chroma = StoreOf(GatewayProjectName(StoredProject),
                              NotesThenCompacts(StoredProject, n, 0))
          /\ uid = n + 1
          /\ clock = n + 1
    /\ InitClients
    /\ ops = 0
    /\ rq = NoRq
    /\ \E secret \in Secrets, authorization \in Headers :
          /\ secret = <<>> => authorization \in {NoHeader, Bearer \o <<"x">>}
          /\ gw = [NoGw EXCEPT !.secret = secret, !.authorization = authorization]
    /\ fs = NoFs
    /\ config = NoConfig

NextGateway ==
    \/ GwWrite
    \/ GwQuery
    \/ GwList
    \/ GwDeleteDocument
    \/ GwDeleteProject

SpecGateway == InitGateway /\ [][NextGateway]_vars

-----------------------------------------------------------------------------
(* The client's configuration over toggles and fresh processes *)

\* the global file a behaviour starts with
GlobalFiles ==
    {NoFile, File("empty", ""), File("flat", "on")}
        \cup {File("nested", w) : w \in Words}

\* the project file a behaviour starts with: none, or one written by hand
ProjectFiles == {NoFile, File("null", ""), File("nested", "on")}

InitConfig ==
    /\ dirname \in DirNames
    /\ initialized \in BOOLEAN
    /\ chroma = StoreOf(GlobalName, <<>>)
    /\ uid = 1
    /\ clock = 1
    /\ InitClients
    /\ ops = 0
    /\ rq = NoRq
    /\ gw = NoGw
    /\ \E yaml \in BOOLEAN, global \in GlobalFiles, project \in ProjectFiles :
          /\ project.exists => initialized
          /\ fs = [NoFs EXCEPT !.yaml = yaml, !.global = global, !.project = project]
    /\ config = NoConfig

NextConfig ==
    \/ \E c \in Clients : Load(c)
    \/ \E c \in Clients, mode \in Words : Toggle(c, mode)
    \/ \E c \in Clients : Finish(c)

SpecConfig == InitConfig /\ [][NextConfig]_vars

-----------------------------------------------------------------------------
(* save under the auto-save mode *)

\* one client; its saves are the last two of MaxOps commands
InitSave ==
    /\ dirname \in DirNames
    /\ initialized \in BOOLEAN
    /\ chroma = StoreOf(GlobalName, <<>>)
    /\ uid = 1
    /\ clock = 1
    /\ InitClients
    /\ ops = MaxOps - 2
    /\ rq = NoRq
    /\ gw = NoGw
    /\ \E yaml \in BOOLEAN, global \in GlobalFiles, project \in ProjectFiles :
          /\ project.exists => initialized
          /\ fs = [NoFs EXCEPT !.yaml = yaml, !.global = global, !.project = project]
    /\ config = NoConfig

NextSave ==
    \/ Load(Sweeper)
    \/ \E mode \in Words : Toggle(Sweeper, mode)
    \/ Save(Sweeper)

SpecSave == InitSave /\ [][NextSave]_vars

-----------------------------------------------------------------------------
(* The fetch loop of delete_bulk with a concurrent save_compact *)

\* a project collection after k saves of compacts followed by n saves of notes
CompactsThenNotes(slug, k, n) ==
    [i \in 1..(k + n) |->
        [id |-> i, text |-> "t1",
         metadata |-> StoredMetadata(IF i <= k THEN "compact" ELSE "note", slug, i)]]

Writer == "c2"

\* the collection holds a page and one document, the compacts at their cap;
\* the two commands are the last of MaxOps
InitRace ==
    /\ dirname \in DirNames
    /\ initialized = TRUE
    /\ chroma = StoreOf(EndpointCollection("project", dirname),
                        CompactsThenNotes(ClientSlug(dirname), COMPACT_LIMIT,
                                          PageSize + 1 - COMPACT_LIMIT))
    /\ uid = PageSize + 2
    /\ clock = PageSize + 2
    /\ InitClients
    /\ ops = MaxOps - 2
    /\ rq = NoRq
    /\ gw = NoGw
    /\ fs = NoFs
    /\ config = NoConfig

\* the fetch loop of delete_bulk, up to its end, and the three requests of
\* save_compact
NextRace ==
    \/ BulkFetch(Sweeper)
    \/ BulkFetchNext(Sweeper)
    \/ SaveCompactFetch(Writer)
    \/ SaveCompactDelete(Writer)
    \/ SaveCompactWrite(Writer)

SpecRace == InitRace /\ [][NextRace]_vars

-----------------------------------------------------------------------------
(* The fetch loop of delete_bulk alone, over collections of up to two pages
   and one document.  The loop is a while loop of one running process and
   every request of it returns within its timeout, with a response or an
   exception: a pending request of the loop is eventually made. *)

FetchSizes == {0, 1, PageSize, PageSize + 1, 2 * PageSize, 2 * PageSize + 1}

InitFetch ==
    /\ dirname \in DirNames
    /\ initialized = TRUE
    /\ \E k \in FetchSizes :
          /\ chroma = StoreOf(EndpointCollection("project", dirname), Notes(k))
          /\ uid = k + 1
          /\ clock = k + 1
    /\ InitClients
    /\ ops = MaxOps - 1
    /\ rq = NoRq
    /\ gw = NoGw
    /\ fs = NoFs
    /\ config = NoConfig

NextFetch == BulkFetch(Sweeper) \/ BulkFetchNext(Sweeper)

SpecFetch == InitFetch /\ [][NextFetch]_vars /\ WF_vars(BulkFetchNext(Sweeper))

-----------------------------------------------------------------------------
(* save_compact in working directories of any name *)

NameChars == {"A", "b", " ", "_", "-"}

AnyDirNames == UNION {[1..n -> NameChars] : n \in 1..MaxName}

\* the project's collection holds the compacts of earlier saves, at their
\* cap; the command is the last of MaxOps
InitNames ==
    /\ dirname \in AnyDirNames
    /\ initialized = TRUE
    /\ chroma = StoreOf(EndpointCollection("project", dirname),
                        NotesThenCompacts(ClientSlug(dirname), 0, COMPACT_LIMIT))
    /\ uid = COMPACT_LIMIT + 1
    /\ clock = COMPACT_LIMIT + 1
    /\ InitClients
    /\ ops = MaxOps - 1
    /\ rq = NoRq
    /\ gw = NoGw
    /\ fs = NoFs
    /\ config = NoConfig

NextNames ==
    \/ SaveCompactFetch(Sweeper)
    \/ SaveCompactDelete(Sweeper)
    \/ SaveCompactWrite(Sweeper)

SpecNames == InitNames /\ [][NextNames]_vars

-----------------------------------------------------------------------------
(* Compact retention: C1 - C4 *)

CompactCount(ch, scope) == CompactsIn(ch, scope).count

\* the step that ends a save_compact of client c with its write request
EndsSaveCompact(c) == pc[c] = "sc_write" /\ pc'[c] = Idle

DeleteRequests(requests) == SelectSeq(requests, LAMBDA r : r.ep = "delete")

\* the whole collection of a scope fits the window of one _get_compacts request
FitsFetch(ch, scope) ==
    Len(DocsOf(ch, EndpointCollection(scope, dirname))) <= CompactFetchLimit

\* C1: every behaviour starts with at most COMPACT_LIMIT compacts per
\* collection; as long as no two commands overlapped (and no request failed),
\* every collection holds at most COMPACT_LIMIT compacts, whatever the number
\* of notes beside them.
C1_CompactCap ==
    (~hist.raced /\ hist.failed = 0) =>
        \A scope \in Scopes : CompactCount(chroma, scope) <= COMPACT_LIMIT

\* C2: a save_compact that runs alone, with every request answered, on a
\* collection of at most CompactFetchLimit documents holding COMPACT_LIMIT
\* compacts or more sends exactly one delete
\* request, before its write request, for a compact with the oldest created_at
\* of the collection; and from exactly COMPACT_LIMIT compacts it leaves
\* exactly COMPACT_LIMIT.
C2_DeleteOldestOnce ==
    [][\A c \in Clients :
          (/\ EndsSaveCompact(c)
           /\ alone[c]
           /\ hist'.failed = 0
           /\ FitsFetch(chroma', cmd[c].scope)
           /\ pre[c].count >= COMPACT_LIMIT)
          => /\ Len(DeleteRequests(sent'[c])) = 1
             /\ sent'[c][Len(sent'[c])].ep = "write"
             /\ Range(DeleteRequests(sent'[c])[1].ids) \subseteq pre[c].oldest
             /\ pre[c].count = COMPACT_LIMIT
                  => CompactCount(chroma', cmd[c].scope) = COMPACT_LIMIT]_vars

\* C3 (its second half): once two interleaved save_compact calls have left a
\* collection (of at most CompactFetchLimit documents) over the cap, the next
\* save_compact that runs alone, with every request answered, leaves at most
\* COMPACT_LIMIT compacts in it.
C3_NextSaveRestoresCap ==
    [][\A c \in Clients :
          (/\ EndsSaveCompact(c)
           /\ alone[c]
           /\ hist.raced
           /\ hist'.failed = 0
           /\ FitsFetch(chroma', cmd[c].scope)
           /\ pre[c].count > COMPACT_LIMIT)
          => CompactCount(chroma', cmd[c].scope) <= COMPACT_LIMIT]_vars

NewestFirst(docs) ==
    \A i \in 1..Len(docs) : \A j \in (i + 1)..Len(docs) :
        ~StringLess(SortKey(docs[i]), SortKey(docs[j]))

\* the list _get_compacts returned to a save_compact that is past its fetch
Fetched(c) == pc[c] \in {"sc_delete", "sc_write"}

\* C4: with no two commands overlapping, the list _get_compacts returns has at
\* most COMPACT_LIMIT entries, all of them compacts, newest first.
C4_FetchedCompacts ==
    ~hist.raced =>
        \A c \in Clients :
            Fetched(c) =>
                /\ Len(loc[c].compacts) <= COMPACT_LIMIT
                /\ \A i \in 1..Len(loc[c].compacts) : IsCompact(loc[c].compacts[i])
                /\ NewestFirst(loc[c].compacts)

\* a second command in a row fetched COMPACT_LIMIT compacts out of a
\* collection that also holds notes
C4_Witness ==
    \E c \in Clients :
        /\ ~hist.raced
        /\ ops >= 2
        /\ Fetched(c)
        /\ Len(loc[c].compacts) = COMPACT_LIMIT
        /\ \E i \in 1..Len(DocsOf(chroma, EndpointCollection(cmd[c].scope, dirname))) :
              ~IsCompact(DocsOf(chroma, EndpointCollection(cmd[c].scope, dirname))[i])

-----------------------------------------------------------------------------
(* The sweeps of delete_bulk: C5 - C9 *)

\* the documents of the collection delete_bulk of client c sweeps
Swept(c) == DocsOf(chroma, EndpointCollection(cmd[c].scope, dirname))

\* the fetch loop of delete_bulk has ended with every request answered
FetchDone(c) == cmd[c].name = "delete_bulk" /\ pc[c] = "db_sweep"

IdSet(documents) == {documents[i].id : i \in 1..Len(documents)}

\* the fetched list holds every document of the collection, each once
FetchedAll(c) ==
    /\ Len(loc[c].documents) = Len(Swept(c))
    /\ IdSet(loc[c].documents) = IdSet(Swept(c))
    /\ Cardinality(IdSet(loc[c].documents)) = Len(Swept(c))

\* C5 (as the code has it): with no concurrent writer, the fetch loop over a
\* collection of K documents issues K \div PageSize + 1 list requests (one
\* more than the ceiling of K / PageSize when K is a multiple of PageSize,
\* zero included), and the concatenated result holds each of the K documents
\* exactly once.
C5_Pagination ==
    \A c \in Clients :
        FetchDone(c) =>
            /\ loc[c].requests = (Len(Swept(c)) \div PageSize) + 1
            /\ FetchedAll(c)

\* C5 as claimed: exactly ceil(K / PageSize) list requests, and each of the K
\* documents exactly once.
C5_CeilingRequests ==
    \A c \in Clients :
        FetchDone(c) =>
            /\ loc[c].requests = (Len(Swept(c)) + PageSize - 1) \div PageSize
            /\ FetchedAll(c)

\* a collection of PageSize + 1 documents fetched in two pages
C5_Witness ==
    /\ FetchDone(Sweeper)
    /\ Len(Swept(Sweeper)) = PageSize + 1
    /\ loc[Sweeper].requests = 2
    /\ Len(loc[Sweeper].documents) = PageSize + 1

\* delete_bulk of client c is past its two predicates
SweepDone(c) == cmd[c].name = "delete_bulk" /\ loc[c].swept

\* created_at is there and is an ISO-8601 timestamp
Parses(doc) == "created_at" \in DOMAIN doc.metadata /\ doc.metadata.created_at >= 1

\* the ids of the fetched documents older than now - N days
AgeMatched(c) ==
    LET documents == loc[c].documents
    IN {documents[i].id : i \in
           {i \in 1..Len(documents) :
               /\ Parses(documents[i])
               /\ documents[i].metadata.created_at
                      < loc[c].now - cmd[c].days * DayTicks}}

LaterOfGroup(c, with_empty) ==
    LET documents == loc[c].documents
        later(t) == LET group == {i \in 1..Len(documents) : documents[i].text = t}
                    IN group \ {i \in group : \A j \in group : i <= j}
    IN {documents[i].id : i \in
           UNION {later(t) : t \in {t \in Texts : with_empty \/ t # ""}}}

\* C7 (as the code has it): the fetched documents of non-empty text are
\* grouped by exact text equality; of every group the first in the fetched
\* order is left out by the duplicate predicate and all others are selected;
\* a document of unique text, and a document of empty text, is never selected.
C7_DuplicateSweep ==
    \A c \in Clients :
        (SweepDone(c) /\ cmd[c].dupes) => Range(loc[c].dupes) = LaterOfGroup(c, FALSE)

\* C7 as claimed: every group of equal text, the empty text included, keeps
\* exactly its first document.
C7_EveryGroup ==
    \A c \in Clients :
        (SweepDone(c) /\ cmd[c].dupes) => Range(loc[c].dupes) = LaterOfGroup(c, TRUE)

\* a group of more than two documents: the first is kept, the others selected
C7_Witness ==
    /\ SweepDone(Sweeper)
    /\ cmd[Sweeper].dupes
    /\ Len(loc[Sweeper].dupes) >= 2
    /\ loc[Sweeper].documents[1].id \notin Range(loc[Sweeper].dupes)

\* delete_bulk with both predicates, past its sweep
BothSweeps(c) == SweepDone(c) /\ cmd[c].has_days /\ cmd[c].dupes

\* the ids of the delete requests a command has sent
SentForDeletion(c) ==
    UNION {Range(DeleteRequests(sent[c])[k].ids) : k \in 1..Len(DeleteRequests(sent[c]))}

\* no id in two delete requests, none twice in one
SentOnce(c) ==
    LET requests == DeleteRequests(sent[c])
    IN /\ \A k \in 1..Len(requests) :
              Cardinality(Range(requests[k].ids)) = Len(requests[k].ids)
       /\ \A k \in 1..Len(requests) : \A l \in (k + 1)..Len(requests) :
              Range(requests[k].ids) \cap Range(requests[l].ids) = {}

\* C8: in delete_bulk with both --days and --dupes, no id outside the union
\* of the two predicates' matches is sent for deletion, no id is sent twice,
\* and once the delete loop has ended the ids sent are that union.
C8_DeletionSet ==
    \A c \in Clients :
        BothSweeps(c) =>
            /\ SentForDeletion(c) \subseteq AgeMatched(c) \cup LaterOfGroup(c, FALSE)
            /\ SentOnce(c)
            /\ (pc[c] = Idle /\ ~cmd[c].dry_run /\ loc[c].confirm = <<"y">>)
                  => SentForDeletion(c) = AgeMatched(c) \cup LaterOfGroup(c, FALSE)

\* documents matched by both predicates, deleted in more than one request
C8_Witness ==
    /\ BothSweeps(Sweeper)
    /\ pc[Sweeper] = Idle
    /\ Len(DeleteRequests(sent[Sweeper])) >= 2
    /\ AgeMatched(Sweeper) \cap LaterOfGroup(Sweeper, FALSE) # {}
    /\ SentForDeletion(Sweeper) = AgeMatched(Sweeper) \cup LaterOfGroup(Sweeper, FALSE)

DeleteCommands ==
    {"delete_bulk", "delete_compact_bulk", "delete_compact_by_index",
     "delete_history_by_index"}

\* client c takes this step
Acts(c) == pc'[c] # pc[c] \/ sent'[c] # sent[c] \/ loc'[c] # loc[c] \/ cmd'[c] # cmd[c]

CollectionNames(ch) == {ch.collections[i].name : i \in 1..Len(ch.collections)}

\* every collection holds after the step the documents it held before it; a
\* collection the step created is empty
DocumentsUnchanged ==
    \A name \in CollectionNames(chroma) \cup CollectionNames(chroma') :
        DocsOf(chroma', name) = DocsOf(chroma, name)

\* C9 (as the code has it): a step of one of the four delete commands with
\* dry_run, or of delete_bulk while the answer to its prompt, stripped and
\* lowercased, is not "y", sends no /delete/document request and leaves the
\* documents of every collection as they were (its list request may create
\* the collection, empty).
C9_NoDeleteWithoutConsent ==
    [][\A c \in Clients :
          (/\ Acts(c)
           /\ cmd'[c].name \in DeleteCommands
           /\ \/ cmd'[c].dry_run
              \/ cmd'[c].name = "delete_bulk" /\ loc'[c].confirm # <<"y">>)
          => /\ DeleteRequests(sent'[c]) = <<>>
             /\ DocumentsUnchanged]_vars

\* C9 as claimed: with dry_run, or in delete_bulk unless the answer is
\* exactly "y", no /delete/document request is sent and the store is unchanged.
C9_ExactlyY ==
    [][\A c \in Clients :
          (/\ Acts(c)
           /\ cmd'[c].name \in DeleteCommands
           /\ \/ cmd'[c].dry_run
              \/ cmd'[c].name = "delete_bulk" /\ loc'[c].answer # <<"y">>)
          => /\ DeleteRequests(sent'[c]) = <<>>
             /\ chroma' = chroma]_vars

\* delete_bulk found documents to delete, the answer was "n", nothing was sent
C9_Witness ==
    /\ cmd[Sweeper].name = "delete_bulk"
    /\ ~cmd[Sweeper].dry_run
    /\ pc[Sweeper] = Idle
    /\ loc[Sweeper].unique_ids # <<>>
    /\ loc[Sweeper].answer = <<"n">>
    /\ DeleteRequests(sent[Sweeper]) = <<>>

-----------------------------------------------------------------------------
(* Collection resolution: C10 *)

\* C10: with a create that is atomic and answers 409 for an existing name,
\* the interleaved get_or_create_collection calls leave at most one collection
\* per name; every call that has completed holds the id of the one collection
\* of its name; and a call whose create was answered 409 goes on to the
\* listing and does not end in "not found after creation".
C10_OneCollectionPerName ==
    /\ \A name \in ResolveNames : Cardinality(CollectionIndex(chroma, name)) <= 1
    /\ \A r \in Requests :
          /\ rq[r].pc = "done" =>
                \E i \in CollectionIndex(chroma, rq[r].name) :
                    chroma.collections[i].id = rq[r].id
          /\ rq[r].status = 409 =>
                /\ rq[r].pc \in {"list", "done", "failed"}
                /\ rq[r].why # "not found after creation"

\* two calls for one name have completed with one id, the create of the one
\* answered 200 and of the other 409
C10_Witness ==
    \E r, s \in Requests :
        /\ rq[r].pc = "done" /\ rq[s].pc = "done"
        /\ rq[r].name = rq[s].name
        /\ rq[r].status = 200 /\ rq[s].status = 409
        /\ rq[r].id = rq[s].id

-----------------------------------------------------------------------------
(* The gateway's endpoints: C11 - C18, C20 *)

\* the listing of a call came with status 200 and the call has ended
Listed(r) == rq[r].pc = "list" /\ rq'[r].pc # "list" /\ rq'[r].why # "ChromaDB error"

Serves(endpoint) == ops' = ops + 1 /\ gw'.last.endpoint = endpoint

IsPrefix(s, t) == Len(s) <= Len(t) /\ SubSeq(t, 1, Len(s)) = s

\* the ids of all documents of a store
StoredIds(ch) ==
    UNION {IdSet(ch.collections[i].docs) : i \in 1..Len(ch.collections)}

C13_QueryUnwrittenScope ==
    [][(/\ Serves("query")
        /\ gw'.last.status # 401
        /\ gw'.last.fail = "none"
        /\ \A i \in 1..Len(chroma.collections) :
               chroma.collections[i].name # gw'.last.collection)
       => /\ gw'.last.status = 200
          /\ gw'.last.documents = <<>>
          /\ gw'.last.collection =
                IF gw'.last.scope = "project"
                THEN [scope |-> "project",
                      slug |-> Replace(Lower(gw'.last.project_id), " ", "-")]
                ELSE [scope |-> "global", slug |-> <<>>]
          /\ \E i \in 1..Len(chroma'.collections) :
                /\ chroma'.collections[i].name = gw'.last.collection
                /\ chroma'.collections[i].docs = <<>>]_vars

\* a project that was never written to was queried, after a write to the
\* global scope: no match, and the project's collection is there
C13_Witness ==
    /\ gw.last.endpoint = "query"
    /\ gw.last.scope = "project"
    /\ gw.last.status = 200
    /\ gw.last.documents = <<>>
    /\ DocsOf(chroma, GlobalName) # <<>>
    /\ HasCollection(chroma, gw.last.collection)

\* C14: /delete/project served twice in a row for the same project_id, the
\* first a success and the store answering the second, succeeds the second
\* time too, and the second leaves the store as the first left it.
C14_DeleteProjectTwice ==
    [][(/\ gw.last.endpoint = "delete_project"
        /\ gw.last.status = 200
        /\ Serves("delete_project")
        /\ gw'.last.project_id = gw.last.project_id
        /\ gw'.last.status # 401
        /\ gw'.last.fail = "none")
       => /\ gw'.last.status = 200
          /\ gw'.last.detail = "not found, nothing to delete"
          /\ chroma' = chroma]_vars

\* the project's collection was dropped by the first request and the second
\* found none
C14_Witness ==
    /\ gw.prev.endpoint = "delete_project"
    /\ gw.prev.detail = "deleted"
    /\ gw.last.endpoint = "delete_project"
    /\ gw.last.project_id = gw.prev.project_id
    /\ gw.last.status = 200
    /\ gw.last.detail = "not found, nothing to delete"
    /\ chroma.collections = <<>>

\* C15: after a write for a project_id and a successful /delete/project for
\* the same project_id, a list for that project_id no longer returns the
\* document written: the collection dropped is the one the write derived.
C15_DeleteDropsWhatWriteFilled ==
    (/\ gw.prev.endpoint = "write"
     /\ gw.prev.scope = "project"
     /\ gw.prev.status = 200
     /\ gw.last.endpoint = "delete_project"
     /\ gw.last.project_id = gw.prev.project_id
     /\ gw.last.status = 200)
    => /\ gw.last.collection = gw.prev.collection
       /\ \A d \in Range(ListEndpoint(chroma, CollectionName("project", gw.last.project_id),
                                      DefaultLimit, 0).documents) :
             d.id # gw.prev.id

\* the project_id with its letters in lower case and hyphens for its spaces
Normal(project_id) == Replace(Lower(project_id), " ", "-")

\* C16: write, query and list derive the same collection name from a
\* project_id, "project_" followed by the id in lower case with hyphens for
\* spaces; so a document written under one id is listed and found under
\* every id that differs from it only in case or in a space for a hyphen.
C16_OneNamePerProject ==
    [][(/\ \E e \in {"write", "query", "list"} : Serves(e)
        /\ gw'.last.scope = "project")
       => /\ gw'.last.collection =
                [scope |-> "project", slug |-> Normal(gw'.last.project_id)]
          /\ (/\ gw.last.endpoint = "write"
              /\ gw.last.scope = "project"
              /\ gw.last.status = 200
              /\ Normal(gw.last.project_id) = Normal(gw'.last.project_id)
              /\ gw'.last.endpoint \in {"query", "list"}
              /\ gw'.last.status = 200)
             => \E i \in 1..Len(gw'.last.documents) :
                    gw'.last.documents[i].id = gw.last.id]_vars

\* a document written under "A " is listed under "a-"
C16_Witness ==
    /\ gw.prev.endpoint = "write"
    /\ gw.prev.status = 200
    /\ gw.prev.project_id = <<"A", " ">>
    /\ gw.last.endpoint = "list"
    /\ gw.last.status = 200
    /\ gw.last.project_id = <<"a", "-">>
    /\ \E i \in 1..Len(gw.last.documents) : gw.last.documents[i].id = gw.prev.id

\* the documents of the request's collection stored under the id returned
StoredBy(ch, request) ==
    {d \in Range(DocsOf(ch, request.collection)) : d.id = request.id}

SystemKeys == {"visibility", "created_at", "updated_at"}

\* C17: every write that passes the token check and whose backend calls
\* succeed, with metadata omitted, null or a mapping, stores a document whose
\* metadata has visibility = the scope and the server's created_at and
\* updated_at, and every other key of the caller with the caller's value.
C17_MetadataMerge ==
    [][(/\ Serves("write")
        /\ gw'.last.status # 401
        /\ gw'.last.fail = "none")
       => /\ gw'.last.status = 200
          /\ StoredBy(chroma', gw'.last) # {}
          /\ \A d \in StoredBy(chroma', gw'.last) :
                /\ d.metadata.visibility = gw'.last.scope
                /\ d.metadata.created_at = clock
                /\ d.metadata.updated_at = clock
                /\ \A k \in DOMAIN gw'.last.metadata.value \ SystemKeys :
                      /\ k \in DOMAIN d.metadata
                      /\ d.metadata[k] = gw'.last.metadata.value[k]]_vars

\* C18: with no secret configured every request is admitted; with a secret a
\* request is admitted exactly when its Authorization header is "Bearer "
\* followed by the secret; a request that is not admitted is answered 401
\* before any embedding or store call, and leaves the store as it was.
C18_AuthDecision ==
    [][ops' = ops + 1 =>
          LET header == gw'.last.authorization
              admitted == gw'.last.status # 401
          IN /\ gw.secret = <<>> => admitted
             /\ gw.secret # <<>> =>
                   (admitted <=> /\ header.present
                                 /\ header.value = Bearer \o gw.secret)
             /\ ~admitted => /\ gw'.last.calls = <<>>
                             /\ chroma' = chroma
                             /\ uid' = uid
                             /\ gw'.last.detail \in
                                   {"Missing Authorization header",
                                    "Invalid Authorization format", "Invalid token"}
             /\ (gw.secret # <<>> /\ ~header.present) =>
                   gw'.last.detail = "Missing Authorization header"
       ]_vars

\* a write whose header is the secret after "bearer " in lower case was
\* turned away
C18_Witness ==
    /\ gw.secret = <<"s">>
    /\ gw.last.endpoint = "write"
    /\ gw.last.authorization.present
    /\ gw.last.authorization.value = Lower(Bearer) \o <<"s">>
    /\ gw.last.status = 401
    /\ gw.last.detail = "Invalid Authorization format"

\* C20: in every step of the gateway, a document that is stored before the
\* step is stored after it in the same collection with the same text and
\* metadata, unless the step is a successful /delete/document that names its
\* collection and its id, or a successful /delete/project that drops its
\* collection; and no document of its id with another text or metadata
\* appears.  In particular write, query and list remove and alter nothing.
C20_DocumentLifecycle ==
    [][\A name \in CollectionNames(chroma) :
          \A d \in Range(DocsOf(chroma, name)) :
              LET after == {x \in Range(DocsOf(chroma', name)) : x.id = d.id}
              IN /\ after \subseteq {d}
                 /\ after = {} =>
                       /\ gw'.last.status = 200
                       /\ gw'.last.collection = name
                       /\ \/ /\ gw'.last.endpoint = "delete_document"
                             /\ d.id \in gw'.last.ids
                          \/ /\ gw'.last.endpoint = "delete_project"
                             /\ name \notin CollectionNames(chroma')
       ]_vars

\* the note the store began with was deleted by its id, and the document
\* written to the same collection before that is still there
C20_Witness ==
    /\ gw.prev.endpoint = "write"
    /\ gw.prev.status = 200
    /\ gw.last.endpoint = "delete_document"
    /\ gw.last.status = 200
    /\ gw.last.collection = gw.prev.collection
    /\ gw.last.ids = {1}
    /\ gw.prev.id = 2
    /\ StoredBy(chroma, gw.prev) # {}
    /\ Len(DocsOf(chroma, gw.last.collection)) = 1

-----------------------------------------------------------------------------
(* The auto-save mode: C19 *)

\* a mode as it is shown: the booleans of YAML by their words
ModeOf(v) ==
    IF v.type = "bool" THEN PyStr(IF v.b THEN "on" ELSE "off") ELSE v

\* C19: a client resolves the mode to its project-level value when it has
\* one, else to its global-level value, else to "off"; and a client loaded
\* after toggle(m), m on or off, wrote the project file resolves it to m,
\* whatever the global file holds.
C19_ToggleThenLoad ==
    \A c \in Clients :
        pc[c] = "loaded" =>
            /\ get_effective_mode(config[c]) =
                  ModeOf(IF config[c].project_mode # PyNone
                         THEN config[c].project_mode
                         ELSE config[c].global_mode)
            /\ config[c].after # "none" =>
                  get_effective_mode(config[c]) = PyStr(config[c].after)

-----------------------------------------------------------------------------
(* The client's commands: C21 - C29 *)

\* C21: a gateway request of a client command that failed is the last
\* request of its command, and the command has ended with exit code 1.
C21_FailedRequestAborts ==
    \A c \in Clients :
        \A i \in 1..Len(sent[c]) :
            ~sent[c][i].ok => /\ i = Len(sent[c])
                              /\ pc[c] = Idle
                              /\ exit[c] = 1

\* the commands that take an index, and the entries their listing returned
IndexCommands ==
    {"retrieve_compact", "delete_compact_by_index", "delete_history_by_index"}

ListedEntries(c) ==
    IF cmd[c].name = "delete_history_by_index" THEN loc[c].documents
    ELSE loc[c].compacts

\* C22: a command that takes an index and was given one below 1 or above the
\* number of entries its listing returned has ended with exit code 1.
C22_InvalidIndexExits ==
    \A c \in Clients :
        (/\ cmd[c].name \in IndexCommands
         /\ ~(cmd[c].name = "retrieve_compact" /\ cmd[c].all)
         /\ pc[c] = Idle
         /\ sent[c] # <<>>
         /\ sent[c][1].ok
         /\ \/ cmd[c].index < 1
            \/ cmd[c].index > Len(ListedEntries(c)))
        => exit[c] = 1

\* C23: the fetch loop of delete_bulk can end with a listing that is not the
\* collection, each document once; it does so only when another client's
\* command ran while delete_bulk did (with no such command the listing is
\* exact).
C23_InexactOnlyWhenRaced ==
    (FetchDone(Sweeper) /\ ~FetchedAll(Sweeper)) => ~alone[Sweeper]

\* between the two pages a save_compact deleted the oldest compact and wrote
\* a new one: the listing holds the new compact, and omits a note that was in
\* the collection before the sweep began and still is
C23_Witness ==
    /\ FetchDone(Sweeper)
    /\ loc[Sweeper].requests = 2
    /\ uid - 1 \in IdSet(loc[Sweeper].documents)
    /\ PageSize + 1 \in IdSet(Swept(Sweeper)) \ IdSet(loc[Sweeper].documents)

\* client c runs save in this step
Saves(c) ==
    pc[c] = "loaded" /\ pc'[c] = Idle /\ ops' = ops + 1 /\ cmd'[c].name = "save"

\* the project marker is there, or the scope is global
Ungated(scope) == scope = "global" \/ initialized

\* C24 as claimed: a save without force while the effective mode is "off"
\* sends no request, leaves the store unchanged and returns (exit code 0); a
\* save with force on an initialized project or on the global scope sends
\* exactly one write request, whatever the mode.
C24_SaveRespectsToggle ==
    [][\A c \in Clients :
          Saves(c) =>
              /\ (~cmd'[c].force /\ get_effective_mode(config[c]) = PyStr("off"))
                    => /\ sent'[c] = <<>>
                       /\ chroma' = chroma
                       /\ exit'[c] = 0
              /\ (cmd'[c].force /\ Ungated(cmd'[c].scope))
                    => /\ Len(sent'[c]) = 1
                       /\ sent'[c][1].ep = "write"
       ]_vars

\* C24 (as the code has it): a save without force while the effective mode
\* is "off" sends no request and leaves the store unchanged; it returns None
\* (exit code 0) on an initialized project or on the global scope, and exits
\* with code 1 on a project that is not initialized.  A save with force on an
\* initialized project or on the global scope sends exactly one write
\* request, whatever the mode.
C24_SaveRespectsToggleInitialized ==
    [][\A c \in Clients :
          Saves(c) =>
              /\ (~cmd'[c].force /\ get_effective_mode(config[c]) = PyStr("off"))
                    => /\ sent'[c] = <<>>
                       /\ chroma' = chroma
                       /\ exit'[c] = IF Ungated(cmd'[c].scope) THEN 0 ELSE 1
              /\ (cmd'[c].force /\ Ungated(cmd'[c].scope))
                    => /\ Len(sent'[c]) = 1
                       /\ sent'[c][1].ep = "write"
       ]_vars

\* toggle wrote "off" under a global "on"; the client loaded after it saved
\* without force and sent nothing, a save before that having written a
\* document
C24_Witness ==
    /\ fs.toggled = "off"
    /\ fs.yaml
    /\ fs.global = File("nested", "on")
    /\ pc[Sweeper] = Idle
    /\ cmd[Sweeper].name = "save"
    /\ ~cmd[Sweeper].force
    /\ config[Sweeper].after = "off"
    /\ sent[Sweeper] = <<>>
    /\ exit[Sweeper] = 0
    /\ ops = MaxOps
    /\ uid = 2

\* C25: after the duplicate sweep, the one document it retains of every group
\* of fetched documents with the same text has the greatest created_at of
\* its group, over one page or more.
C25_KeepsNewest ==
    \A c \in Clients :
        (SweepDone(c) /\ cmd[c].dupes) =>
            LET documents == loc[c].documents
                swept == Range(loc[c].dupes)
            IN \A t \in Texts \ {""} :
                  LET group == {i \in 1..Len(documents) : documents[i].text = t}
                      kept == {i \in group : documents[i].id \notin swept}
                  IN Cardinality(group) > 1 =>
                        \A i \in kept : \A j \in group :
                            ~StringLess(SortKey(documents[i]), SortKey(documents[j]))

\* C26: when delete_history_by_index is about to send its delete request for
\* index i, i within what history displays of the (unchanged) collection, the
\* one id it sends is the id of the document history displays at position i.
C26_DeletesDisplayed ==
    \A c \in Clients :
        LET shown == HistoryDisplay(chroma, cmd[c].scope)
        IN (/\ cmd[c].name = "delete_history_by_index"
            /\ pc[c] = "dh_delete"
            /\ cmd[c].index <= Len(shown))
           => loc[c].unique_ids = <<shown[cmd[c].index].id>>

\* C27: every request of a client command names one collection: the
\* collection the client sends with /delete/document is the collection the
\* gateway derives from the project_id the client sends with its list and
\* write requests, "project_" and the directory name in lower case with
\* hyphens for spaces and underscores, whatever the directory name is; and
\* the document deleted was in it.
C27_OneCollectionPerCommand ==
    \A c \in Clients :
        \A i \in 1..Len(sent[c]) :
            /\ sent[c][i].collection =
                  IF cmd[c].scope = "project"
                  THEN [scope |-> "project",
                        slug |-> Replace(Replace(Lower(dirname), " ", "-"), "_", "-")]
                  ELSE [scope |-> "global", slug |-> <<>>]
            /\ (sent[c][i].ep = "delete" /\ sent[c][i].ok /\ cmd[c].scope = "project")
                  => /\ Len(chroma.collections) = 1
                     /\ \A d \in Range(chroma.collections[1].docs) :
                            d.id \notin Range(sent[c][i].ids)

\* in the directory "A _" save_compact listed, deleted the oldest compact and
\* wrote the new one
C27_Witness ==
    /\ dirname = <<"A", " ", "_">>
    /\ cmd[Sweeper].scope = "project"
    /\ pc[Sweeper] = Idle
    /\ Len(sent[Sweeper]) = 3
    /\ \A i \in 1..3 : sent[Sweeper][i].ok
    /\ sent[Sweeper][2].ep = "delete"
    /\ Len(DocsOf(chroma, ProjectName(<<"a", "-", "-">>))) = COMPACT_LIMIT

\* the locals of the fetch loop before a list request of it
LoopLocals(c) == IF pc[c] = "db_fetch" THEN loc[c] ELSE NoLoc

\* a list request of client c's fetch loop was answered
PageFetched(c) ==
    /\ cmd'[c].name = "delete_bulk"
    /\ pc'[c] \in {"db_fetch", "db_sweep"}
    /\ loc'[c].requests = LoopLocals(c).requests + 1

\* C28: with no concurrent writer the fetch loop of delete_bulk terminates:
\* every answered list request moves the offset forward by the size of its
\* page, strictly when the page is not empty, and the loop goes on only after
\* a full page; the offset, a multiple of the page size while the loop runs,
\* never passes the size of the collection; and a running loop eventually ends.
C28_FetchLoopTerminates ==
    /\ [][PageFetched(Sweeper) =>
             LET batch == SubSeq(loc'[Sweeper].documents,
                                 Len(LoopLocals(Sweeper).documents) + 1,
                                 Len(loc'[Sweeper].documents))
             IN /\ loc'[Sweeper].offset = LoopLocals(Sweeper).offset + Len(batch)
                /\ batch # <<>> => loc'[Sweeper].offset > LoopLocals(Sweeper).offset
                /\ pc'[Sweeper] = "db_fetch" <=> Len(batch) = PageSize]_vars
    /\ [](pc[Sweeper] = "db_fetch" =>
             /\ loc[Sweeper].offset = loc[Sweeper].requests * PageSize
             /\ loc[Sweeper].offset <= Len(Swept(Sweeper)))
    /\ (pc[Sweeper] = "db_fetch") ~> (pc[Sweeper] # "db_fetch")

\* a collection of two pages and one document fetched in three requests
C28_Witness ==
    /\ FetchDone(Sweeper)
    /\ alone[Sweeper]
    /\ loc[Sweeper].requests = 3
    /\ loc[Sweeper].offset = 2 * PageSize + 1
    /\ Len(sent[Sweeper]) = 3
    /\ \A i \in 1..3 : sent[Sweeper][i].ok /\ sent[Sweeper][i].ep = "list"

\* C29: a project-scoped command in a project that is not initialized sends
\* no request to the gateway and exits with code 1
C29_GatedBeforeAnyRequest ==
    \A c \in Clients :
        (cmd[c].name # "none" /\ cmd[c].scope = "project" /\ ~initialized)
            => /\ sent[c] = <<>>
               /\ pc[c] = Idle
               /\ exit[c] = 1

-----------------------------------------------------------------------------
(* The gateway's read-only requests: C30 *)

\* C30: a /list or /query request, whatever its token and whichever backend
\* call fails, writes no document (no id is used) and leaves every collection
\* of the store in its place with its id, its name and its documents; the one
\* thing it may add is the collection of the name derived from the request,
\* with no document in it.
C30_ReadsLeaveDocuments ==
    [][(Serves("list") \/ Serves("query"))
       => /\ uid' = uid
          /\ Len(chroma'.collections) \in
                {Len(chroma.collections), Len(chroma.collections) + 1}
          /\ \A i \in 1..Len(chroma.collections) :
                chroma'.collections[i] = chroma.collections[i]
          /\ \A i \in (Len(chroma.collections) + 1)..Len(chroma'.collections) :
                /\ chroma'.collections[i].docs = <<>>
                /\ chroma'.collections[i].name =
                      IF gw'.last.scope = "project"
                      THEN [scope |-> "project",
                            slug |-> Replace(Lower(gw'.last.project_id), " ", "-")]
                      ELSE [scope |-> "global", slug |-> <<>>]]_vars

\* a query returned the note of the stored project, and a list of another
\* project then created that project's collection, empty, next to it
C30_Witness ==
    /\ gw.prev.endpoint = "query"
    /\ gw.prev.status = 200
    /\ Len(gw.prev.documents) = 1
    /\ gw.last.endpoint = "list"
    /\ gw.last.status = 200
    /\ gw.last.documents = <<>>
    /\ gw.last.collection # gw.prev.collection
    /\ Len(chroma.collections) = 2
    /\ Len(DocsOf(chroma, gw.prev.collection)) = 1
    /\ DocsOf(chroma, gw.last.collection) = <<>>

====
